---- MODULE Spec2Model ----
(***************************************************************************)
(* Myreps: a model of the workout logger (src/components/WorkoutLogger.tsx), *)
(* the workout page (src/pages/WorkoutPage.tsx), the auth provider         *)
(* (src/unnamed/part_004) and the routing shell (src/App.tsx).             *)
(*                                                                         *)
(* The module holds several specifications over one set of variables; each *)
(* specification moves the variables of one component and leaves the       *)
(* others at their initial values:                                         *)
(*   SpecLogger  the logger's session state, its two effects, localStorage *)
(*   SpecPage    handleWorkoutComplete against the backend tables          *)
(*   SpecAuth    the auth provider's state and the routes App renders      *)
(*   SpecRest    the logger's rest timer: interval, completion timeout     *)
(*   SpecCanonical  getCanonicalMuscleGroup on decorated group names       *)
(*   SpecSeeder  seedDefaultWorkouts against the backend tables            *)
(*   SpecForm    RoutineForm's list of selected exercises and its submit   *)
(*   SpecAI      the AI routine generator: response, validation, saving    *)
(*   SpecAdHoc   the workout page opened without a workoutId, its logger   *)
(*   SpecSavedEntry  the logger mounted over any saved entry               *)
(*   SpecStored  the workout page opened with a workoutId                  *)
(*   SpecAuthFair, SpecAuthEvents  the provider with answering backend;    *)
(*               the provider under auth events alone                      *)
(***************************************************************************)
EXTENDS Integers, Sequences, FiniteSets, TLC

VARIABLES
    \* ---- WorkoutLogger: props, React state, pending effects, localStorage
    plan,                    \* workout.exercises: the plan of the workout, as stored and as passed in the prop
    stored,                  \* localStorage["inProgressWorkout-<user.id>-<workout.id>"]
    mounted,                 \* the logger is rendered by WorkoutPage
    currentExerciseIndex,    \* useState(0), 0-based as in the code
    loggedWorkoutExercises,  \* useState([])
    startTime,               \* useState(0)
    isInitialized,           \* useState(false)
    showDifficultyPrompt,    \* useState(false)
    effects,                 \* passive effects committed and not yet run, oldest first
    now,                     \* Date.now()
    edits,                   \* number of edit and navigation events handled so far
    atUnmount,               \* history: the session state when the logger was last unmounted
    \* ---- WorkoutPage: React state, the run of handleWorkoutComplete, the backend
    isLoading,               \* useState(true); false once the page has loaded
    workoutCompleted,        \* useState(false)
    completedWorkoutLog,     \* useState(null)
    pageStartTime,           \* const [startTime] = useState(Date.now())
    pc,                      \* where handleWorkoutComplete is: idle, or the await it is at
    call,                    \* its arguments and locals: loggedExercisesData, user, insertedLog
    failedStep,              \* how its last run ended: "none", or the step that threw
    workout_logs,            \* table workout_logs, rows in insertion order
    exercise_logs,           \* table exercise_logs, rows in insertion order
    dbLastWeights,           \* profiles.last_exercise_weights of the user's row
    userLastWeights,         \* AuthProvider state: user.last_exercise_weights
    \* ---- AuthProvider and App: React state, the calls in flight, the backend, the location
    user,                    \* useState<Profile | null>(null)
    session,                 \* useState<Session | null>(null)
    loading,                 \* useState(true)
    path,                    \* the HashRouter's location, as its sequence of segments
    initPc,                  \* where initializeSession is: getSession, loadProfile, done
    loads,                   \* loadUserProfile calls of auth callbacks that have not returned
    authSession,             \* the session the Supabase client holds
    profiles,                \* table profiles: the ids that have a row
    events,                  \* number of auth operations and events so far
    \* ---- WorkoutLogger's rest timer: React state, the browser's timers
    restTimeLeft,            \* useState(0)
    isResting,               \* useState(false)
    restTimerIntervalId,     \* useState<number | null>(null); 0 stands for null
    intervals,               \* live setInterval timers: id, and the id in its callback's closure
    timeouts,                \* pending setTimeout callbacks of handleRestComplete
    pendingCleanup,          \* id the interval effect's cleanup will clear when effects are flushed
    starts,                  \* number of startRestTimer calls so far: the last interval id
    lastDuration,            \* history: the argument of the latest startRestTimer
    skipped,                 \* history: skipRestTimer ran since the latest startRestTimer
    \* ---- routineSeeder: getCanonicalMuscleGroup, seedDefaultWorkouts, the backend tables
    groupName,               \* the argument of getCanonicalMuscleGroup
    canonicalGroup,          \* its result, once it was applied
    canonicalAgain,          \* the result of applying it to its result
    exercises,               \* table exercises: the library
    workouts,                \* table workouts, the user's rows in insertion order
    workout_exercises,       \* table workout_exercises: a set of rows
    seedPc,                  \* where seedDefaultWorkouts is: idle, or the await or loop head it is at
    seedLocal,               \* its locals: allExercises, the templates left, the selection, newWorkout, the count
    seedResult,              \* what its last call returned
    seedCalls,               \* number of calls so far
    seedHistory,             \* history of the last call: names read, templates skipped, rows it inserted
    \* ---- RoutineForm: props and React state
    initialWorkout,          \* the prop: the workout being edited, or Null when creating
    formNombre,              \* useState(''): nombre
    selectedExercises,       \* useState([])
    exerciseToAddId,         \* useState('')
    formSeries,              \* useState(3): series of the exercise to add
    formRepeticiones,        \* useState(10): repeticiones of the exercise to add
    formOps,                 \* number of calls so far of the handlers that read or write the list
    formLast,                \* history: the latest of those handlers, its argument, and what handleSubmit passed on
    \* ---- AIRoutineGeneratorModal and RoutinesPage.handleSaveAIGeneratedWorkout
    availableExercises,      \* RoutinesPage state: the library, the modal's prop
    aiPc,                    \* idle, or the await handleGenerate or handleSave is at
    generatedWorkout,        \* useState(null): the workout shown for saving
    aiError,                 \* useState(null): error
    aiLocal,                 \* the response in flight, or the locals of the save
    aiHistory,               \* history: the number of handleGenerate calls, the entries the filter dropped from the workout shown, the rows the saves wrote
    \* ---- WorkoutPage opened without a workoutId
    pageAllExercises,        \* WorkoutPage allExercises, useState([])
    currentWorkout,          \* useState(null)
    adhocPc,                 \* where the page's mount effect is, or the page it navigated to
    fetchLocal               \* fetchWorkoutDetails: workoutData, and whether it caught an error

loggerVars == <<plan, stored, mounted, currentExerciseIndex, loggedWorkoutExercises,
                startTime, isInitialized, showDifficultyPrompt, effects, now, edits,
                atUnmount>>

pageVars == <<isLoading, workoutCompleted, completedWorkoutLog, pageStartTime, pc, call,
              failedStep, workout_logs, exercise_logs, dbLastWeights, userLastWeights>>

authVars == <<user, session, loading, path, initPc, loads, authSession, profiles, events>>

restVars == <<restTimeLeft, isResting, restTimerIntervalId, intervals, timeouts,
              pendingCleanup, starts, lastDuration, skipped>>

seedVars == <<groupName, canonicalGroup, canonicalAgain, exercises, workouts, workout_exercises,
              seedPc, seedLocal, seedResult, seedCalls, seedHistory>>

(* The variables of the components outside the logger, the page, the provider
   and the rest timer *)
formVars == <<initialWorkout, formNombre, selectedExercises, exerciseToAddId, formSeries,
              formRepeticiones, formOps, formLast>>

aiVars == <<availableExercises, aiPc, generatedWorkout, aiError, aiLocal, aiHistory>>

adhocVars == <<pageAllExercises, currentWorkout, adhocPc, fetchLocal>>

extraVars == <<seedVars, formVars, aiVars, adhocVars>>

vars == <<loggerVars, pageVars, authVars, restVars, extraVars>>

----------------------------------------------------------------------------
(* Bounds *)

MaxEdits == 2      \* edit and navigation events per behaviour
MaxNow == 2        \* the clock runs from 1 to MaxNow
MaxLogs == 2       \* visits of the workout page, and rows of workout_logs

(* The exercise library passed in allExercises, and the exercise ids a plan may
   name ("e3" is a plan exercise that is not in the library). *)
AllExercises == {"e1", "e2"}

PlanEntry(e, s) == [exercise_id |-> e, series |-> s]

(* The plans the workout may have: empty, one or two exercises, one or two
   series, the same exercise twice, an exercise missing from the library. *)
Plans ==
    { <<>>,
      <<PlanEntry("e1", 1)>>,
      <<PlanEntry("e2", 1)>>,
      <<PlanEntry("e1", 2)>>,
      <<PlanEntry("e1", 1), PlanEntry("e2", 1)>>,
      <<PlanEntry("e2", 1), PlanEntry("e1", 1)>>,
      <<PlanEntry("e1", 1), PlanEntry("e1", 1)>>,
      <<PlanEntry("e3", 1)>> }

(* What an <input type="number"> or the notes textarea hands to the handlers. *)
InputValues == {"", "1", "abc"}
NoteValues == {"", "slow"}
SetFields == {"reps_achieved", "weight_used"}

----------------------------------------------------------------------------
(* Pure helpers of WorkoutLogger *)

(* parseFloat(value): a number, or NaN *)
ParseFloat(value) ==
    CASE value = "1" -> [nan |-> FALSE, val |-> 1]
      [] value = "2" -> [nan |-> FALSE, val |-> 2]
      [] OTHER -> [nan |-> TRUE, val |-> 0]

(* workout.exercises.map(planExercise => ({exercise_id, sets_performed:
   Array(series).fill(null).map(() => ({reps_achieved: 0, weight_used: 0})),
   notes_for_exercise: ''})) *)
FreshLogged(p) ==
    [i \in 1..Len(p) |->
        [exercise_id |-> p[i].exercise_id,
         sets_performed |-> [k \in 1..p[i].series |-> [reps_achieved |-> 0, weight_used |-> 0]],
         notes_for_exercise |-> ""]]

NoEntry == [kind |-> "none"]

(* What else localStorage.getItem may return for the key: the empty string, and
   a text that is not JSON *)
EmptyText == [kind |-> "text", text |-> ""]
Unparsable == [kind |-> "text", text |-> "{"]

(* if (savedStateJSON): the item is a string that is not empty *)
HasSavedState(item) == item # NoEntry /\ item # EmptyText

(* JSON.parse(savedStateJSON) returns, it does not throw *)
Parses(item) == item.kind = "json"

(* A stateToSave that leaves the position out. *)
StateToSave_NoIndex(snap) ==
    [loggedWorkoutExercises |-> snap.loggedWorkoutExercises,
     currentExerciseIndex |-> 0,
     startTime |-> snap.startTime]

(* const stateToSave = {loggedWorkoutExercises, currentExerciseIndex, startTime} *)
StateToSave(snap) ==
    [loggedWorkoutExercises |-> snap.loggedWorkoutExercises,
     currentExerciseIndex |-> snap.currentExerciseIndex,
     startTime |-> snap.startTime]

(* JSON.stringify: the state holds finite numbers, strings and arrays only, which
   JSON keeps; fields that are not in the object are not in the text. *)
JSONStringify(obj) ==
    [kind |-> "json",
     loggedWorkoutExercises |-> obj.loggedWorkoutExercises,
     currentExerciseIndex |-> obj.currentExerciseIndex,
     startTime |-> obj.startTime]

(* JSON.parse of a text that holds an object: the fields the text has *)
JSONParse(text) ==
    IF "loggedWorkoutExercises" \in DOMAIN text
    THEN [loggedWorkoutExercises |-> text.loggedWorkoutExercises,
          currentExerciseIndex |-> text.currentExerciseIndex,
          startTime |-> text.startTime]
    ELSE [currentExerciseIndex |-> text.currentExerciseIndex,
          startTime |-> text.startTime]

(* x || d for a number x *)
NumOr(x, d) == IF x = 0 THEN d ELSE x

(* The values the render closes over, which the persistence effect reads. *)
Snapshot(logged, idx, st, init) ==
    [loggedWorkoutExercises |-> logged, currentExerciseIndex |-> idx,
     startTime |-> st, isInitialized |-> init]

InitEffect == [kind |-> "init", snap |-> Snapshot(<<>>, 0, 0, FALSE)]
PersistOf(snap) == [kind |-> "persist", snap |-> snap]

(* The render's early return: <LoadingSpinner/> unless initialised, the current
   plan exercise is in the library and the current logged exercise exists. *)
ExerciseDetailsFound ==
    /\ currentExerciseIndex + 1 \in 1..Len(plan)
    /\ plan[currentExerciseIndex + 1].exercise_id \in AllExercises

CurrentLoggedFound == currentExerciseIndex + 1 \in 1..Len(loggedWorkoutExercises)

LoggerLoading == ~isInitialized \/ ~ExerciseDetailsFound \/ ~CurrentLoggedFound

(* The main view (sets, notes, Anterior / Siguiente) is on screen and React has
   flushed the passive effects of the last commit. *)
MainViewReady ==
    /\ mounted /\ effects = <<>>
    /\ ~LoggerLoading /\ ~showDifficultyPrompt

(* The empty object {}, and a missing value *)
EmptyMap == [x \in {} |-> 0]
Null == [kind |-> "null"]

(* The page's variables in the specifications that do not move them. *)
PageUnused ==
    /\ isLoading = FALSE
    /\ workoutCompleted = FALSE
    /\ completedWorkoutLog = Null
    /\ pageStartTime = 0
    /\ pc = "idle"
    /\ call = Null
    /\ failedStep = "none"
    /\ workout_logs = <<>>
    /\ exercise_logs = <<>>
    /\ dbLastWeights = EmptyMap
    /\ userLastWeights = EmptyMap

(* The auth provider's and the router's variables in the specifications that do
   not move them: a signed-in user on a workout page. *)
AuthUnused ==
    /\ user = [id |-> "u1"]
    /\ session = [user |-> "u1"]
    /\ loading = FALSE
    /\ path = <<"workout", "w1">>
    /\ initPc = "done"
    /\ loads = 0
    /\ authSession = [user |-> "u1"]
    /\ profiles = {"u1"}
    /\ events = 0

(* The rest timer's variables in the specifications that do not move them. *)
RestUnused ==
    /\ restTimeLeft = 0
    /\ isResting = FALSE
    /\ restTimerIntervalId = 0
    /\ intervals = {}
    /\ timeouts = {}
    /\ pendingCleanup = 0
    /\ starts = 0
    /\ lastDuration = 0
    /\ skipped = FALSE

(* The seeder's variables in the specifications that do not move them. *)
SeedUnused ==
    /\ groupName = Null
    /\ canonicalGroup = Null
    /\ canonicalAgain = Null
    /\ exercises = <<>>
    /\ workouts = <<>>
    /\ workout_exercises = {}
    /\ seedPc = "idle"
    /\ seedLocal = Null
    /\ seedResult = Null
    /\ seedCalls = 0
    /\ seedHistory = Null

FormUnused ==
    /\ initialWorkout = Null
    /\ formNombre = ""
    /\ selectedExercises = <<>>
    /\ exerciseToAddId = ""
    /\ formSeries = 3
    /\ formRepeticiones = 10
    /\ formOps = 0
    /\ formLast = Null

AIUnused ==
    /\ availableExercises = <<>>
    /\ aiPc = "idle"
    /\ generatedWorkout = Null
    /\ aiError = Null
    /\ aiLocal = Null
    /\ aiHistory = Null

AdHocUnused ==
    /\ pageAllExercises = <<>>
    /\ currentWorkout = Null
    /\ adhocPc = "idle"
    /\ fetchLocal = Null

ExtraUnused == SeedUnused /\ FormUnused /\ AIUnused /\ AdHocUnused

----------------------------------------------------------------------------
(* WorkoutLogger: mount, the two effects, the handlers *)

InitLogger ==
    /\ plan \in Plans
    /\ stored = NoEntry
    /\ mounted = FALSE
    /\ currentExerciseIndex = 0
    /\ loggedWorkoutExercises = <<>>
    /\ startTime = 0
    /\ isInitialized = FALSE
    /\ showDifficultyPrompt = FALSE
    /\ effects = <<>>
    /\ now = 1
    /\ edits = 0
    /\ atUnmount = NoEntry
    /\ PageUnused /\ AuthUnused /\ RestUnused /\ ExtraUnused

(* WorkoutPage renders <WorkoutLogger/>: the useState initial values, and the first
   commit's effects. React runs them in declaration order (initialisation, then
   persistence); the other order is admitted too, so that the persistence guard
   and not the order is what the model relies on. *)
MountLogger ==
    /\ ~mounted
    /\ mounted' = TRUE
    /\ currentExerciseIndex' = 0
    /\ loggedWorkoutExercises' = <<>>
    /\ startTime' = 0
    /\ isInitialized' = FALSE
    /\ showDifficultyPrompt' = FALSE
    /\ \E declared \in BOOLEAN :
         effects' = IF declared
                    THEN <<InitEffect, PersistOf(Snapshot(<<>>, 0, 0, FALSE))>>
                    ELSE <<PersistOf(Snapshot(<<>>, 0, 0, FALSE)), InitEffect>>
    /\ UNCHANGED <<pageVars, authVars, restVars, extraVars, plan, stored, now, edits, atUnmount>>

(* A restoration that looks for the array and not at its length. *)
SavedStateMatches_AnyLength(savedState, p) ==
    "loggedWorkoutExercises" \in DOMAIN savedState

(* savedState.loggedWorkoutExercises &&
   savedState.loggedWorkoutExercises.length === workout.exercises.length *)
SavedStateMatches(savedState, p) ==
    /\ "loggedWorkoutExercises" \in DOMAIN savedState
    /\ Len(savedState.loggedWorkoutExercises) = Len(p)

(* The effect for initialization and state restoration. Its setState calls are
   committed by the re-render that follows, which also schedules the persistence
   effect again because its dependencies changed. *)
RunInitEffect ==
    /\ mounted /\ effects # <<>> /\ Head(effects).kind = "init"
    /\ IF /\ HasSavedState(stored) /\ Parses(stored)
          /\ SavedStateMatches(JSONParse(stored), plan)
       THEN LET savedState == JSONParse(stored) IN
            /\ loggedWorkoutExercises' = savedState.loggedWorkoutExercises
            /\ currentExerciseIndex' = NumOr(savedState.currentExerciseIndex, 0)
            /\ startTime' = NumOr(savedState.startTime, now)
            /\ stored' = stored
       ELSE /\ stored' = IF HasSavedState(stored) THEN NoEntry ELSE stored
            /\ loggedWorkoutExercises' = FreshLogged(plan)
            /\ currentExerciseIndex' = currentExerciseIndex
            /\ startTime' = now
    /\ isInitialized' = TRUE
    /\ effects' = Append(Tail(effects),
                         PersistOf(Snapshot(loggedWorkoutExercises', currentExerciseIndex',
                                            startTime', TRUE)))
    /\ UNCHANGED <<pageVars, authVars, restVars, extraVars, plan, mounted, showDifficultyPrompt, now, edits, atUnmount>>

(* A persistence effect that saves on every run. *)
PersistGuard_Always(snap) == TRUE

(* if (isInitialized && startTime > 0) *)
PersistGuard(snap) == snap.isInitialized /\ snap.startTime > 0

(* The effect for state persistence to localStorage, on the values of its render. *)
RunPersistEffect ==
    /\ mounted /\ effects # <<>> /\ Head(effects).kind = "persist"
    /\ stored' = IF PersistGuard(Head(effects).snap)
                 THEN JSONStringify(StateToSave(Head(effects).snap))
                 ELSE stored
    /\ effects' = Tail(effects)
    /\ UNCHANGED <<pageVars, authVars, restVars, extraVars, plan, mounted, currentExerciseIndex, loggedWorkoutExercises, startTime,
                   isInitialized, showDifficultyPrompt, now, edits, atUnmount>>

(* The re-render after a state change: the persistence effect runs again. *)
PersistAfter(logged, idx) ==
    <<PersistOf(Snapshot(logged, idx, startTime, isInitialized))>>

(* handleSetChange(exerciseLogIndex, setIndex, field, value), called with the
   current exercise and one of its rendered sets (setIndex is 0-based). *)
handleSetChange(setIndex, field, value) ==
    LET i == currentExerciseIndex + 1
        numValue == ParseFloat(value)
        newVal == IF value = "" THEN 0 ELSE numValue.val
    IN
    /\ MainViewReady /\ edits < MaxEdits
    /\ setIndex + 1 \in 1..Len(loggedWorkoutExercises[i].sets_performed)
    /\ edits' = edits + 1
    /\ IF ~numValue.nan \/ value = ""
       THEN /\ loggedWorkoutExercises' =
                 [loggedWorkoutExercises EXCEPT ![i].sets_performed[setIndex + 1][field] = newVal]
            /\ effects' = PersistAfter(loggedWorkoutExercises', currentExerciseIndex)
       ELSE UNCHANGED <<loggedWorkoutExercises, effects>>
    /\ UNCHANGED <<pageVars, authVars, restVars, extraVars, plan, stored, mounted, currentExerciseIndex, startTime, isInitialized,
                   showDifficultyPrompt, now, atUnmount>>

(* handleNotesChange(exerciseLogIndex, notes) *)
handleNotesChange(notes) ==
    LET i == currentExerciseIndex + 1 IN
    /\ MainViewReady /\ edits < MaxEdits
    /\ edits' = edits + 1
    /\ loggedWorkoutExercises' = [loggedWorkoutExercises EXCEPT ![i].notes_for_exercise = notes]
    /\ effects' = PersistAfter(loggedWorkoutExercises', currentExerciseIndex)
    /\ UNCHANGED <<pageVars, authVars, restVars, extraVars, plan, stored, mounted, currentExerciseIndex, startTime, isInitialized,
                   showDifficultyPrompt, now, atUnmount>>

(* A Next that also advances from the last exercise. *)
goToNextExercise_PastLast ==
    /\ MainViewReady /\ edits < MaxEdits
    /\ edits' = edits + 1
    /\ currentExerciseIndex' = currentExerciseIndex + 1
    /\ effects' = PersistAfter(loggedWorkoutExercises, currentExerciseIndex')
    /\ UNCHANGED <<pageVars, authVars, restVars, extraVars, plan, stored, mounted,
                   loggedWorkoutExercises, startTime, isInitialized, showDifficultyPrompt,
                   now, atUnmount>>

(* goToNextExercise, the onClick of Siguiente / Finalizar *)
goToNextExercise ==
    /\ MainViewReady /\ edits < MaxEdits
    /\ edits' = edits + 1
    /\ IF currentExerciseIndex < Len(plan) - 1
       THEN /\ currentExerciseIndex' = currentExerciseIndex + 1
            /\ effects' = PersistAfter(loggedWorkoutExercises, currentExerciseIndex')
            /\ UNCHANGED showDifficultyPrompt
       ELSE /\ showDifficultyPrompt' = TRUE
            /\ UNCHANGED <<currentExerciseIndex, effects>>
    /\ UNCHANGED <<pageVars, authVars, restVars, extraVars, plan, stored, mounted, loggedWorkoutExercises, startTime, isInitialized,
                   now, atUnmount>>

goToPreviousExercise ==
    /\ MainViewReady /\ edits < MaxEdits
    /\ edits' = edits + 1
    /\ IF currentExerciseIndex > 0
       THEN /\ currentExerciseIndex' = currentExerciseIndex - 1
            /\ effects' = PersistAfter(loggedWorkoutExercises, currentExerciseIndex')
       ELSE UNCHANGED <<currentExerciseIndex, effects>>
    /\ UNCHANGED <<pageVars, authVars, restVars, extraVars, plan, stored, mounted, loggedWorkoutExercises, startTime, isInitialized,
                   showDifficultyPrompt, now, atUnmount>>

(* The component's state is gone once it is unmounted. *)
LoggerStateDropped ==
    /\ mounted' = FALSE
    /\ currentExerciseIndex' = 0
    /\ loggedWorkoutExercises' = <<>>
    /\ startTime' = 0
    /\ isInitialized' = FALSE
    /\ showDifficultyPrompt' = FALSE
    /\ effects' = <<>>

SessionState ==
    [kind |-> "state",
     plan |-> plan,
     loggedWorkoutExercises |-> loggedWorkoutExercises,
     currentExerciseIndex |-> currentExerciseIndex,
     startTime |-> startTime]

(* WorkoutPage stops rendering the logger (isLoading during a refetch, or the user
   leaves the page); React has flushed the pending effects before. *)
UnmountLogger ==
    /\ mounted /\ effects = <<>>
    /\ atUnmount' = SessionState
    /\ LoggerStateDropped
    /\ UNCHANGED <<pageVars, authVars, restVars, extraVars, plan, stored, now, edits>>

(* handleFinishWorkout from the difficulty prompt: onWorkoutComplete sets the
   page's isLoading, which unmounts the logger; the page removes the entry when
   its three backend steps succeeded and keeps it otherwise. *)
handleFinishWorkout(saved) ==
    /\ mounted /\ effects = <<>> /\ ~LoggerLoading /\ showDifficultyPrompt
    /\ stored' = IF saved THEN NoEntry ELSE stored
    /\ atUnmount' = IF saved THEN NoEntry ELSE SessionState
    /\ LoggerStateDropped
    /\ UNCHANGED <<pageVars, authVars, restVars, extraVars, plan, now, edits>>

(* The routine is edited on the routines page (handleSubmitWorkoutForm replaces
   the workout_exercises rows of the same workout id) between two sessions. *)
EditPlan ==
    /\ ~mounted
    /\ \E p \in Plans \ {plan} : plan' = p
    /\ UNCHANGED <<pageVars, authVars, restVars, extraVars, stored, mounted, currentExerciseIndex, loggedWorkoutExercises, startTime,
                   isInitialized, showDifficultyPrompt, effects, now, edits, atUnmount>>

ClockTick ==
    /\ now < MaxNow
    /\ now' = now + 1
    /\ UNCHANGED <<pageVars, authVars, restVars, extraVars, plan, stored, mounted, currentExerciseIndex, loggedWorkoutExercises,
                   startTime, isInitialized, showDifficultyPrompt, effects, edits, atUnmount>>

NextLogger ==
    \/ MountLogger
    \/ RunInitEffect
    \/ RunPersistEffect
    \/ \E k \in 0..1, f \in SetFields, v \in InputValues : handleSetChange(k, f, v)
    \/ \E n \in NoteValues : handleNotesChange(n)
    \/ goToNextExercise
    \/ goToPreviousExercise
    \/ UnmountLogger
    \/ \E saved \in BOOLEAN : handleFinishWorkout(saved)
    \/ EditPlan
    \/ ClockTick

SpecLogger == InitLogger /\ [][NextLogger]_vars

----------------------------------------------------------------------------
(* Claims on the logger's resumable session (SpecLogger) *)

(* The step in which the initialisation effect runs. *)
InitialisationStep == mounted /\ ~isInitialized /\ isInitialized'

(* C1: resumable session round trip. When the logger is mounted again for the same
   user and workout and the plan is the one it had at the unmount, the
   initialisation gives back the loggedWorkoutExercises, the currentExerciseIndex
   and the startTime the logger had when it was unmounted. *)
C1_RoundTrip ==
    [][ (InitialisationStep /\ atUnmount # NoEntry /\ atUnmount.plan = plan)
        => /\ loggedWorkoutExercises' = atUnmount.loggedWorkoutExercises
           /\ currentExerciseIndex' = atUnmount.currentExerciseIndex
           /\ startTime' = atUnmount.startTime ]_vars

(* A second session that was restored: an edited set, a position past the first
   exercise and a start time older than the clock. *)
C1_Witness ==
    /\ mounted /\ isInitialized /\ effects = <<>>
    /\ atUnmount # NoEntry /\ atUnmount.plan = plan
    /\ loggedWorkoutExercises = atUnmount.loggedWorkoutExercises
    /\ currentExerciseIndex = atUnmount.currentExerciseIndex
    /\ currentExerciseIndex > 0
    /\ startTime = atUnmount.startTime /\ startTime < now
    /\ \E i \in 1..Len(loggedWorkoutExercises) :
          loggedWorkoutExercises[i].sets_performed[1].weight_used > 0

(* C2: the in-progress entry is written only once initialisation has completed
   (isInitialized, startTime > 0); whatever the order of the two effects of the
   mount, the empty initial state never replaces a saved session. *)
C2_NoWriteBeforeInit ==
    [][ (stored' # stored /\ stored' # NoEntry)
        => /\ isInitialized /\ startTime > 0
           /\ stored'.startTime > 0
           /\ stored'.loggedWorkoutExercises = loggedWorkoutExercises ]_vars

(* The persistence effect of the first commit has run before the initialisation
   effect, and the saved session is still there to be read. *)
C2_Witness ==
    /\ mounted /\ ~isInitialized
    /\ Len(effects) = 1 /\ Head(effects).kind = "init"
    /\ stored # NoEntry /\ stored.startTime > 0
    /\ Len(stored.loggedWorkoutExercises) > 0

(* C3: after initialisation the logged exercises are those of the plan, position
   by position, also when the plan was edited between two sessions. *)
C3_LoggedMatchesPlan ==
    (mounted /\ isInitialized)
    => /\ Len(loggedWorkoutExercises) = Len(plan)
       /\ \A i \in 1..Len(plan) :
             loggedWorkoutExercises[i].exercise_id = plan[i].exercise_id

----------------------------------------------------------------------------
(* WorkoutPage: handleWorkoutComplete against the backend tables (SpecPage).
   The logger is taken here as what the page sees of it: the entry it keeps in
   localStorage and the data it hands to onWorkoutComplete. *)

(* The logger's variables in the specifications that do not move them. *)
LoggerUnused ==
    /\ mounted = FALSE
    /\ currentExerciseIndex = 0
    /\ loggedWorkoutExercises = <<>>
    /\ startTime = 0
    /\ isInitialized = FALSE
    /\ showDifficultyPrompt = FALSE
    /\ effects = <<>>
    /\ edits = 0
    /\ atUnmount = NoEntry

loggerOnly == <<mounted, currentExerciseIndex, loggedWorkoutExercises, startTime,
                isInitialized, showDifficultyPrompt, effects, edits, atUnmount>>

(* The plans of the pages's workout: two series of one exercise, two exercises,
   the same exercise twice (workout_exercises rows have their own key, and
   handleSaveAIGeneratedWorkout keeps repeated names). *)
PagePlans ==
    { <<PlanEntry("e1", 2)>>,
      <<PlanEntry("e1", 1), PlanEntry("e2", 1)>>,
      <<PlanEntry("e1", 1), PlanEntry("e1", 1)>> }

(* What the user may have logged for one set. *)
SetValues ==
    { [reps_achieved |-> 0, weight_used |-> 0],
      [reps_achieved |-> 5, weight_used |-> 1],
      [reps_achieved |-> 3, weight_used |-> 2] }

(* The sets_performed lists of one or two sets. *)
AllSetLists == [1..1 -> SetValues] \cup [1..2 -> SetValues]

(* The loggedWorkoutExercises a session on plan p can hold: any of SetValues in the
   sets the plan asks for, and a note or none on the first exercise. *)
LoggedDataOf(p) ==
    { [i \in 1..Len(p) |->
         [exercise_id |-> p[i].exercise_id,
          sets_performed |-> sets[i],
          notes_for_exercise |-> IF i = 1 THEN n ELSE ""]] :
        sets \in {g \in [1..Len(p) -> AllSetLists] :
                    \A i \in 1..Len(p) : Len(g[i]) = p[i].series},
        n \in NoteValues }

(* exLog.notes_for_exercise || null *)
Comentario(notes) == IF notes = "" THEN Null ELSE [kind |-> "text", text |-> notes]

(* A payload whose serie is the 0-based set index. *)
ExerciseLogRows_ZeroBased(exLog, logId) ==
    [k \in 1..Len(exLog.sets_performed) |->
        [workout_log_id |-> logId,
         exercise_id |-> exLog.exercise_id,
         serie |-> k - 1,
         repeticiones |-> exLog.sets_performed[k].reps_achieved,
         peso |-> exLog.sets_performed[k].weight_used,
         comentario |-> Comentario(exLog.notes_for_exercise)]]

(* exLog.sets_performed.map((set, setIndex) => ({...})): the k-th set has
   setIndex = k - 1 *)
ExerciseLogRows(exLog, logId) ==
    [k \in 1..Len(exLog.sets_performed) |->
        [workout_log_id |-> logId,
         exercise_id |-> exLog.exercise_id,
         serie |-> (k - 1) + 1,
         repeticiones |-> exLog.sets_performed[k].reps_achieved,
         peso |-> exLog.sets_performed[k].weight_used,
         comentario |-> Comentario(exLog.notes_for_exercise)]]

RECURSIVE FlatMapFrom(_, _, _)
FlatMapFrom(data, logId, i) ==
    IF i > Len(data) THEN <<>>
    ELSE ExerciseLogRows(data[i], logId) \o FlatMapFrom(data, logId, i + 1)

(* exerciseLogsPayload = loggedExercisesData.flatMap(...) *)
ExerciseLogsPayload(data, logId) == FlatMapFrom(data, logId, 1)

RECURSIVE MaxWeightFrom(_, _, _)
MaxWeightFrom(sets, k, maxWeight) ==
    IF k > Len(sets) THEN maxWeight
    ELSE MaxWeightFrom(sets, k + 1,
                       IF sets[k].weight_used > maxWeight THEN sets[k].weight_used ELSE maxWeight)

(* A maximum that adds the weights up. *)
MaxWeight_Sum(sets) ==
    IF Len(sets) = 0 THEN 0
    ELSE IF Len(sets) = 1 THEN sets[1].weight_used
    ELSE sets[1].weight_used + sets[2].weight_used

(* let maxWeight = 0; exLog.sets_performed.forEach(set => {if (set.weight_used >
   maxWeight) maxWeight = set.weight_used}) *)
MaxWeight(sets) == MaxWeightFrom(sets, 1, 0)

(* map[e] = rec on a copy of the map *)
MapSet(map, e, rec) == [x \in DOMAIN map \cup {e} |-> IF x = e THEN rec ELSE map[x]]

RECURSIVE LastWeightsFrom(_, _, _, _)
LastWeightsFrom(acc, data, date, i) ==
    IF i > Len(data) THEN acc
    ELSE LastWeightsFrom(
            IF MaxWeight(data[i].sets_performed) > 0
            THEN MapSet(acc, data[i].exercise_id,
                        [weight |-> MaxWeight(data[i].sets_performed), date |-> date])
            ELSE acc,
            data, date, i + 1)

RECURSIVE KeepRecordFrom(_, _, _, _)
KeepRecordFrom(acc, data, date, i) ==
    IF i > Len(data) THEN acc
    ELSE KeepRecordFrom(
            IF /\ MaxWeight(data[i].sets_performed) > 0
               /\ \/ data[i].exercise_id \notin DOMAIN acc
                  \/ acc[data[i].exercise_id].weight < MaxWeight(data[i].sets_performed)
            THEN MapSet(acc, data[i].exercise_id,
                        [weight |-> MaxWeight(data[i].sets_performed), date |-> date])
            ELSE acc,
            data, date, i + 1)

(* Last weights that are replaced only by a heavier lift. *)
CurrentLastWeights_KeepRecord(lastWeights, data, date) == KeepRecordFrom(lastWeights, data, date, 1)

(* currentLastWeights = {...(user.last_exercise_weights || {})}, then for each
   logged exercise with maxWeight > 0 the entry {weight: maxWeight, date:
   insertedLog.start_time} *)
CurrentLastWeights(lastWeights, data, date) == LastWeightsFrom(lastWeights, data, date, 1)

(* updateUserProfile's setUser: {...(prevUser.last_exercise_weights || {}),
   ...updatedProfileData.last_exercise_weights} *)
MergeWeights(prev, upd) ==
    [x \in DOMAIN prev \cup DOMAIN upd |-> IF x \in DOMAIN upd THEN upd[x] ELSE prev[x]]

(* savedLogForState: the inserted row and the client-side completed_exercises *)
SavedLogForState(insertedLog, data) ==
    [id |-> insertedLog.id,
     user_id |-> insertedLog.user_id,
     workout_id |-> insertedLog.workout_id,
     start_time |-> insertedLog.start_time,
     completed_exercises |-> data]

(* The page's render shows <WorkoutLogger/>: not loading, not the completion view. *)
ShowsLogger ==
    /\ pc = "idle" /\ ~isLoading
    /\ ~(workoutCompleted /\ completedWorkoutLog # Null)

InitPage ==
    /\ plan \in PagePlans
    /\ stored = NoEntry
    /\ now = 1
    /\ LoggerUnused
    /\ isLoading = FALSE
    /\ workoutCompleted = FALSE
    /\ completedWorkoutLog = Null
    /\ pageStartTime = 1
    /\ pc = "idle"
    /\ call = Null
    /\ failedStep = "none"
    /\ workout_logs = <<>>
    /\ exercise_logs = <<>>
    /\ dbLastWeights = EmptyMap
    /\ userLastWeights = EmptyMap
    /\ AuthUnused /\ RestUnused /\ ExtraUnused

(* The logger on screen in a new session: the user logs sets and notes up to the
   last exercise, and the persistence effect keeps the entry equal to the logger's
   state. (A session that was saved before is restored as it was.) *)
LogSets ==
    /\ ShowsLogger /\ stored = NoEntry
    /\ \E data \in LoggedDataOf(plan) :
          stored' = JSONStringify(StateToSave(Snapshot(data, Len(plan) - 1, now, TRUE)))
    /\ UNCHANGED <<authVars, restVars, extraVars, plan, now, loggerOnly, pageVars>>

(* handleWorkoutComplete, up to its first await; the logger calls it with its
   loggedWorkoutExercises. *)
BeginWorkoutComplete ==
    /\ ShowsLogger /\ stored # NoEntry
    /\ Len(workout_logs) < MaxLogs
    /\ isLoading' = TRUE
    /\ pc' = "insertLog"
    /\ call' = [loggedExercisesData |-> JSONParse(stored).loggedWorkoutExercises,
                userLastWeights |-> userLastWeights,
                insertedLog |-> Null]
    /\ UNCHANGED <<authVars, restVars, extraVars, plan, stored, now, loggerOnly, workoutCompleted, completedWorkoutLog,
                   pageStartTime, failedStep, workout_logs, exercise_logs, dbLastWeights,
                   userLastWeights>>

(* catch and finally that also clear the saved session. *)
CatchFinally_RemovesEntry(step) ==
    /\ failedStep' = step
    /\ isLoading' = FALSE
    /\ pc' = "idle"
    /\ call' = Null
    /\ stored' = NoEntry
    /\ UNCHANGED <<authVars, restVars, extraVars, plan, now, loggerOnly, workoutCompleted, completedWorkoutLog,
                   pageStartTime, workout_logs, exercise_logs, dbLastWeights, userLastWeights>>

(* catch (error) {console.error(...)} finally {setIsLoading(false)} *)
CatchFinally(step) ==
    /\ failedStep' = step
    /\ isLoading' = FALSE
    /\ pc' = "idle"
    /\ call' = Null
    /\ UNCHANGED <<authVars, restVars, extraVars, plan, stored, now, loggerOnly, workoutCompleted, completedWorkoutLog,
                   pageStartTime, workout_logs, exercise_logs, dbLastWeights, userLastWeights>>

(* Step 1: insert into workout_logs, .select().single() *)
InsertWorkoutLog(ok) ==
    /\ pc = "insertLog"
    /\ IF ok
       THEN LET row == [id |-> Len(workout_logs) + 1,
                        user_id |-> "u1",
                        workout_id |-> "w1",
                        start_time |-> pageStartTime]
            IN /\ workout_logs' = Append(workout_logs, row)
               /\ call' = [call EXCEPT !.insertedLog = row]
               /\ pc' = IF Len(ExerciseLogsPayload(call.loggedExercisesData, row.id)) > 0
                        THEN "insertExerciseLogs" ELSE "updateProfile"
               /\ UNCHANGED <<authVars, restVars, extraVars, plan, stored, now, loggerOnly, isLoading, workoutCompleted,
                              completedWorkoutLog, pageStartTime, failedStep, exercise_logs,
                              dbLastWeights, userLastWeights>>
       ELSE CatchFinally("workout_logs")

(* Step 2: one insert of the whole payload into exercise_logs *)
InsertExerciseLogs(ok) ==
    /\ pc = "insertExerciseLogs"
    /\ IF ok
       THEN /\ exercise_logs' = exercise_logs \o
                    ExerciseLogsPayload(call.loggedExercisesData, call.insertedLog.id)
            /\ pc' = "updateProfile"
            /\ UNCHANGED <<authVars, restVars, extraVars, plan, stored, now, loggerOnly, isLoading, workoutCompleted,
                           completedWorkoutLog, pageStartTime, call, failedStep, workout_logs,
                           dbLastWeights, userLastWeights>>
       ELSE CatchFinally("exercise_logs")

(* Steps 3 to 5: updateUserProfile({last_exercise_weights: currentLastWeights}),
   which writes the map to the profiles row and merges it into the user state;
   then the completion state and the removal of the saved session. *)
UpdateProfileAndFinish(ok) ==
    /\ pc = "updateProfile"
    /\ IF ok
       THEN LET currentLastWeights ==
                    CurrentLastWeights(call.userLastWeights, call.loggedExercisesData,
                                       call.insertedLog.start_time)
            IN /\ dbLastWeights' = currentLastWeights
               /\ userLastWeights' = MergeWeights(userLastWeights, currentLastWeights)
               /\ completedWorkoutLog' = SavedLogForState(call.insertedLog, call.loggedExercisesData)
               /\ workoutCompleted' = TRUE
               /\ stored' = NoEntry
               /\ isLoading' = FALSE
               /\ pc' = "idle"
               /\ call' = Null
               /\ failedStep' = "none"
               /\ UNCHANGED <<authVars, restVars, extraVars, plan, now, loggerOnly, pageStartTime, workout_logs, exercise_logs>>
       ELSE CatchFinally("profile")

(* The user opens the workout page again later: a new page with its useState
   initial values, loaded. *)
RevisitPage ==
    /\ pc = "idle" /\ now < MaxLogs
    /\ now' = now + 1
    /\ pageStartTime' = now + 1
    /\ isLoading' = FALSE
    /\ workoutCompleted' = FALSE
    /\ completedWorkoutLog' = Null
    /\ failedStep' = "none"
    /\ UNCHANGED <<authVars, restVars, extraVars, plan, stored, loggerOnly, pc, call, workout_logs, exercise_logs,
                   dbLastWeights, userLastWeights>>

NextPage ==
    \/ LogSets
    \/ BeginWorkoutComplete
    \/ \E ok \in BOOLEAN : InsertWorkoutLog(ok)
    \/ \E ok \in BOOLEAN : InsertExerciseLogs(ok)
    \/ \E ok \in BOOLEAN : UpdateProfileAndFinish(ok)
    \/ RevisitPage

SpecPage == InitPage /\ [][NextPage]_vars

----------------------------------------------------------------------------
(* Claims on completing a workout (SpecPage) *)

(* The step in which a run of handleWorkoutComplete ends. *)
CompleteEnds == pc # "idle" /\ pc' = "idle"

(* The rows of exercise_logs that belong to workout log id. *)
RowsOfLog(rows, id) == {j \in 1..Len(rows) : rows[j].workout_log_id = id}

NumberOfSets(data) ==
    Cardinality({<<i, k>> \in (1..Len(data)) \X (1..2) : k <= Len(data[i].sets_performed)})

(* C4: the saved session is removed and the completion view shown only when the
   workout_logs insert, the exercise_logs insert and the profile update have all
   succeeded; when a step fails the entry is kept, workoutCompleted stays false and
   completedWorkoutLog stays null; loading ends in both cases. *)
C4_CompleteOnlyAfterAllSaved ==
    /\ [][ CompleteEnds =>
            /\ isLoading' = FALSE
            /\ IF failedStep' = "none"
               THEN /\ stored' = NoEntry
                    /\ workoutCompleted' /\ completedWorkoutLog' # Null
                    /\ \E l \in 1..Len(workout_logs') :
                          workout_logs'[l].id = completedWorkoutLog'.id
                    /\ Cardinality(RowsOfLog(exercise_logs', completedWorkoutLog'.id))
                         = NumberOfSets(completedWorkoutLog'.completed_exercises)
                    /\ dbLastWeights' = userLastWeights'
               ELSE /\ stored' = stored /\ stored' # NoEntry
                    /\ ~workoutCompleted' /\ completedWorkoutLog' = Null ]_vars
    /\ [][ ((stored # NoEntry /\ stored' = NoEntry) \/ (~workoutCompleted /\ workoutCompleted'))
           => (pc = "updateProfile" /\ failedStep' = "none") ]_vars

(* A run that failed at the profile update, after both inserts: the session is
   still saved and the logger is back on screen. *)
C4_Witness ==
    /\ failedStep = "profile" /\ pc = "idle" /\ ~isLoading
    /\ stored # NoEntry /\ ~workoutCompleted /\ completedWorkoutLog = Null
    /\ Len(workout_logs) > 0 /\ Len(exercise_logs) > 0

(* The row of exercise_logs the k-th set (k = 1 is set index 0) of a logged
   exercise stands for. *)
ExpectedRow(exLog, k, logId) ==
    [workout_log_id |-> logId,
     exercise_id |-> exLog.exercise_id,
     serie |-> k,
     repeticiones |-> exLog.sets_performed[k].reps_achieved,
     peso |-> exLog.sets_performed[k].weight_used,
     comentario |-> IF exLog.notes_for_exercise = "" THEN Null
                    ELSE [kind |-> "text", text |-> exLog.notes_for_exercise]]

LoggedSets(data) ==
    {<<i, k>> \in (1..Len(data)) \X (1..2) : k <= Len(data[i].sets_performed)}

(* C5: once a workout is completed, the rows of exercise_logs with the id of the
   inserted workout log are, one for one, the logged sets: every logged set has its
   row (exercise_id, serie = set index + 1, repeticiones, peso, comentario or null),
   equal rows are there as often as equal sets, and there is no other row. *)
C5_OneRowPerSet ==
    (workoutCompleted /\ completedWorkoutLog # Null) =>
        LET data == completedWorkoutLog.completed_exercises
            id == completedWorkoutLog.id
            mine == RowsOfLog(exercise_logs, id)
        IN /\ \A j \in mine :
                \E ik \in LoggedSets(data) : exercise_logs[j] = ExpectedRow(data[ik[1]], ik[2], id)
           /\ \A ik \in LoggedSets(data) :
                Cardinality({j \in mine : exercise_logs[j] = ExpectedRow(data[ik[1]], ik[2], id)})
                  = Cardinality({jl \in LoggedSets(data) :
                        ExpectedRow(data[jl[1]], jl[2], id) = ExpectedRow(data[ik[1]], ik[2], id)})
           /\ \A j \in 1..Len(exercise_logs) :
                \E l \in 1..Len(workout_logs) : workout_logs[l].id = exercise_logs[j].workout_log_id

(* A completed second workout with a noted exercise and an exercise of two sets or
   two exercises, after rows of an earlier log. *)
C5_Witness ==
    /\ workoutCompleted /\ completedWorkoutLog # Null
    /\ completedWorkoutLog.id > 1
    /\ Cardinality(RowsOfLog(exercise_logs, completedWorkoutLog.id)) = 2
    /\ Len(exercise_logs) > 2
    /\ \E j \in RowsOfLog(exercise_logs, completedWorkoutLog.id) :
          exercise_logs[j].comentario # Null /\ exercise_logs[j].peso > 0

(* The largest of a set of weights, 0 for none. *)
Largest(S) == CHOOSE m \in S \cup {0} : \A x \in S \cup {0} : x <= m

WeightsOf(exLog) == {exLog.sets_performed[k].weight_used : k \in 1..Len(exLog.sets_performed)}

(* The entries of data for exercise e that have a set with a weight above 0. *)
PositiveEntries(data, e) ==
    {i \in 1..Len(data) : data[i].exercise_id = e /\ Largest(WeightsOf(data[i])) > 0}

(* The step in which a workout becomes completed. *)
CompletionStep == ~workoutCompleted /\ workoutCompleted'

(* C6, as amended: after a workout is completed, last_exercise_weights (in the
   profiles row and in the user state) holds, for every exercise with a logged
   entry whose largest weight_used is above 0, {weight: the largest weight of the
   last such entry in list order, date: the start_time of the inserted workout
   log}; the entries of every other exercise are unchanged. *)
C6_LastWeightsUpdated ==
    [][ CompletionStep =>
          LET data == completedWorkoutLog'.completed_exercises
              date == completedWorkoutLog'.start_time
              Holds(before, after) ==
                /\ DOMAIN after = DOMAIN before \cup
                                    {e \in AllExercises : PositiveEntries(data, e) # {}}
                /\ \A e \in DOMAIN after :
                     IF PositiveEntries(data, e) # {}
                     THEN after[e] =
                            [weight |-> Largest(WeightsOf(data[Largest(PositiveEntries(data, e))])),
                             date |-> date]
                     ELSE after[e] = before[e]
          IN Holds(userLastWeights, userLastWeights') /\ Holds(dbLastWeights, dbLastWeights')
      ]_vars

(* A second completed workout that left the entry of e2 from the first one alone
   and replaced the entry of e1. *)
C6_Witness ==
    /\ workoutCompleted /\ completedWorkoutLog # Null /\ completedWorkoutLog.id > 1
    /\ DOMAIN userLastWeights = {"e1", "e2"}
    /\ userLastWeights["e1"].date = completedWorkoutLog.start_time
    /\ userLastWeights["e2"].date < completedWorkoutLog.start_time
    /\ dbLastWeights = userLastWeights

(* C6 as stated: for every logged exercise whose largest weight_used over its sets
   is above 0 the entry holds that largest weight. *)
C6_AsStated ==
    [][ CompletionStep =>
          LET data == completedWorkoutLog'.completed_exercises
              OfExercise(e) == UNION {WeightsOf(data[i]) : i \in {x \in 1..Len(data) : data[x].exercise_id = e}}
          IN \A e \in AllExercises :
                Largest(OfExercise(e)) > 0 =>
                    /\ e \in DOMAIN userLastWeights'
                    /\ userLastWeights'[e] = [weight |-> Largest(OfExercise(e)),
                                              date |-> completedWorkoutLog'.start_time]
      ]_vars

----------------------------------------------------------------------------
(* AuthProvider (src/unnamed/part_004) and the routes App renders (src/App.tsx):
   SpecAuth. The Supabase client is taken as what the provider sees of it: the
   session it holds, the rows of profiles, and the auth events it delivers. *)

MaxEvents == 3     \* auth operations and auth events per behaviour

UserIds == {"u1"}

SessionOf(u) == [user |-> u]

ProfileOf(u) == [id |-> u]

(* Locations of the HashRouter, as sequences of segments: the routes of App, a
   workout id, and two locations no route matches. *)
Root == <<>>
AuthPath == <<"auth">>

Paths ==
    {Root, AuthPath, <<"exercises">>, <<"routines">>, <<"progress">>,
     <<"workout", "w1">>, <<"workout">>, <<"profile">>,
     <<"foo">>, <<"workout", "w1", "edit">>}

(* <Routes>: the route pattern that matches a location *)
MatchRoute(p) ==
    CASE p = AuthPath -> "/auth"
      [] p = Root -> "/"
      [] p = <<"exercises">> -> "/exercises"
      [] p = <<"routines">> -> "/routines"
      [] p = <<"progress">> -> "/progress"
      [] Len(p) = 2 /\ p[1] = "workout" -> "/workout/:workoutId"
      [] p = <<"workout">> -> "/workout"
      [] p = <<"profile">> -> "/profile"
      [] OTHER -> "*"

isAuthenticated_SessionOnly == session # Null

(* const isAuthenticated = !!session && !!user *)
isAuthenticated == session # Null /\ user # Null

Page(name) == [kind |-> "page", page |-> name]
NavigateTo(p) == [kind |-> "navigate", to |-> p]
LoadingScreen == [kind |-> "loading"]

(* element={isAuthenticated ? <X /> : <Navigate to="/auth" />} *)
Guarded(name) == IF isAuthenticated THEN Page(name) ELSE NavigateTo(AuthPath)

(* The element of each <Route> *)
RouteElement(route) ==
    CASE route = "/auth" -> IF ~isAuthenticated THEN Page("AuthPage") ELSE NavigateTo(Root)
      [] route = "/" -> Guarded("HomePage")
      [] route = "/exercises" -> Guarded("ExercisesPage")
      [] route = "/routines" -> Guarded("RoutinesPage")
      [] route = "/progress" -> Guarded("ProgressPage")
      [] route = "/workout/:workoutId" -> Guarded("WorkoutPage")
      [] route = "/workout" -> Guarded("WorkoutPage")
      [] route = "/profile" -> Guarded("ProfilePage")
      [] route = "*" -> NavigateTo(IF isAuthenticated THEN Root ELSE AuthPath)

(* What App returns *)
AppRender == IF loading THEN LoadingScreen ELSE RouteElement(MatchRoute(path))

(* The logger's, the page's and the rest timer's variables in SpecAuth *)
ShellOnly ==
    /\ plan = <<PlanEntry("e1", 1)>>
    /\ stored = NoEntry
    /\ now = 1
    /\ LoggerUnused /\ PageUnused /\ RestUnused /\ ExtraUnused

InitAuth ==
    /\ user = Null
    /\ session = Null
    /\ loading = TRUE
    /\ path \in Paths
    /\ initPc = "getSession"
    /\ loads = 0
    /\ authSession \in {Null} \cup {SessionOf(u) : u \in UserIds}
    /\ profiles \in SUBSET UserIds
    /\ events = 0
    /\ ShellOnly

(* What loadUserProfile passes to setUser: the profile when the select returns
   its row; null when it returns an error, no row, or throws. *)
LoadedProfile(u, ok) == IF ok /\ u \in profiles THEN ProfileOf(u) ELSE Null

(* An initializeSession whose catch is not followed by the finally. *)
GetSessionReturns_NoFinally(ok) ==
    /\ initPc = "getSession"
    /\ IF ~ok
       THEN /\ session' = Null
            /\ user' = Null
            /\ initPc' = "done"
            /\ UNCHANGED loading
       ELSE /\ session' = authSession
            /\ UNCHANGED user
            /\ IF authSession # Null
               THEN initPc' = "loadProfile" /\ UNCHANGED loading
               ELSE initPc' = "done" /\ loading' = FALSE
    /\ UNCHANGED <<loggerVars, pageVars, restVars, extraVars, path, loads, authSession,
                   profiles, events>>

(* initializeSession, from its start to the return of getSession *)
GetSessionReturns(ok) ==
    /\ initPc = "getSession"
    /\ IF ~ok
       THEN /\ session' = Null
            /\ user' = Null
            /\ loading' = FALSE
            /\ initPc' = "done"
       ELSE /\ session' = authSession
            /\ UNCHANGED user
            /\ IF authSession # Null
               THEN initPc' = "loadProfile" /\ UNCHANGED loading
               ELSE initPc' = "done" /\ loading' = FALSE
    /\ UNCHANGED <<loggerVars, pageVars, restVars, extraVars, path, loads, authSession, profiles, events>>

(* initializeSession, from the return of its loadUserProfile to its end *)
InitProfileReturns(ok) ==
    /\ initPc = "loadProfile"
    /\ \E u \in UserIds : user' = LoadedProfile(u, ok)
    /\ loading' = FALSE
    /\ initPc' = "done"
    /\ UNCHANGED <<loggerVars, pageVars, restVars, extraVars, session, path, loads, authSession, profiles, events>>

(* The onAuthStateChange callback, up to its await *)
AuthCallback(currentSession) ==
    /\ session' = currentSession
    /\ IF currentSession # Null
       THEN loads' = loads + 1 /\ UNCHANGED user
       ELSE user' = Null /\ UNCHANGED loads

(* The onAuthStateChange callback, from the return of its loadUserProfile *)
CallbackProfileReturns(ok) ==
    /\ loads > 0
    /\ loads' = loads - 1
    /\ \E u \in UserIds : user' = LoadedProfile(u, ok)
    /\ UNCHANGED <<loggerVars, pageVars, restVars, extraVars, session, loading, path, initPc, authSession, profiles, events>>

(* An auth event that no call of this tab causes: INITIAL_SESSION, TOKEN_REFRESHED,
   a sign-in or sign-out in another tab, an expired session. *)
AuthStateChange(currentSession) ==
    /\ events < MaxEvents
    /\ events' = events + 1
    /\ authSession' = currentSession
    /\ AuthCallback(currentSession)
    /\ UNCHANGED <<loggerVars, pageVars, restVars, extraVars, loading, path, initPc, profiles>>

(* AuthPage.handleSubmit with isLogin: login, then navigate('/') *)
login(ok) ==
    /\ AppRender = Page("AuthPage")
    /\ events < MaxEvents
    /\ events' = events + 1
    /\ IF ok
       THEN \E u \in UserIds :
              /\ authSession' = SessionOf(u)
              /\ AuthCallback(SessionOf(u))
              /\ path' = Root
       ELSE UNCHANGED <<authSession, session, user, loads, path>>
    /\ UNCHANGED <<loggerVars, pageVars, restVars, extraVars, loading, initPc, profiles>>

(* AuthPage.handleSubmit with ~isLogin: register, then navigate('/'). signUp
   returns a session, or none when the project asks for a confirmed email. *)
register(signedUp, signUpSession, profileInserted) ==
    /\ AppRender = Page("AuthPage")
    /\ events < MaxEvents
    /\ events' = events + 1
    /\ IF ~signedUp
       THEN UNCHANGED <<authSession, session, user, loads, path, profiles>>
       ELSE \E u \in UserIds :
              /\ authSession' = signUpSession
              /\ IF profileInserted /\ u \notin profiles
                 THEN /\ profiles' = profiles \cup {u}
                      /\ user' = ProfileOf(u)
                      /\ session' = signUpSession
                      /\ loads' = IF signUpSession # Null THEN loads + 1 ELSE loads
                      /\ path' = Root
                 ELSE /\ IF signUpSession # Null
                         THEN session' = signUpSession /\ loads' = loads + 1
                         ELSE UNCHANGED <<session, loads>>
                      /\ UNCHANGED <<user, path, profiles>>
    /\ UNCHANGED <<loggerVars, pageVars, restVars, extraVars, loading, initPc>>

(* Navbar.handleLogout: logout, then navigate('/auth') *)
logout(ok) ==
    /\ ~loading /\ isAuthenticated
    /\ events < MaxEvents
    /\ events' = events + 1
    /\ IF ok
       THEN /\ authSession' = Null
            /\ AuthCallback(Null)
            /\ path' = AuthPath
       ELSE UNCHANGED <<authSession, session, user, loads, path>>
    /\ UNCHANGED <<loggerVars, pageVars, restVars, extraVars, loading, initPc, profiles>>

(* The user follows a link or edits the location *)
GoTo(p) ==
    /\ p # path
    /\ path' = p
    /\ UNCHANGED <<loggerVars, pageVars, restVars, extraVars, user, session, loading, initPc, loads,
                   authSession, profiles, events>>

(* <Navigate to=... /> is rendered: the location becomes its target *)
Redirect ==
    /\ AppRender.kind = "navigate"
    /\ path' = AppRender.to
    /\ UNCHANGED <<loggerVars, pageVars, restVars, extraVars, user, session, loading, initPc, loads,
                   authSession, profiles, events>>

NextAuth ==
    \/ \E ok \in BOOLEAN : GetSessionReturns(ok)
    \/ \E ok \in BOOLEAN : InitProfileReturns(ok)
    \/ \E ok \in BOOLEAN : CallbackProfileReturns(ok)
    \/ \E s \in {Null} \cup {SessionOf(u) : u \in UserIds} : AuthStateChange(s)
    \/ \E ok \in BOOLEAN : login(ok)
    \/ \E signedUp, profileInserted \in BOOLEAN :
         \E s \in {Null} \cup {SessionOf(u) : u \in UserIds} :
            register(signedUp, s, profileInserted)
    \/ \E ok \in BOOLEAN : logout(ok)
    \/ \E p \in Paths : GoTo(p)
    \/ Redirect

SpecAuth == InitAuth /\ [][NextAuth]_vars

----------------------------------------------------------------------------
(* The route guard *)

ProtectedPages ==
    {"HomePage", "ExercisesPage", "RoutinesPage", "ProgressPage", "WorkoutPage", "ProfilePage"}

(* C8: a protected page is rendered only when both a session and a profile are
   present; without one of them every location other than /auth renders a redirect
   to /auth; with both, /auth renders a redirect to /; while the provider is
   loading App renders the loading screen and no route. *)
C8_RouteGuard ==
    /\ loading => AppRender = LoadingScreen
    /\ (AppRender.kind = "page" /\ AppRender.page \in ProtectedPages)
          => (session # Null /\ user # Null)
    /\ (~loading /\ ~(session # Null /\ user # Null) /\ path # AuthPath)
          => AppRender = NavigateTo(AuthPath)
    /\ (~loading /\ session # Null /\ user # Null /\ path = AuthPath)
          => AppRender = NavigateTo(Root)

(* A session without a profile, on a workout location: the redirect to /auth *)
C8_Witness ==
    /\ ~loading /\ session # Null /\ user = Null
    /\ path = <<"workout", "w1">>
    /\ AppRender = NavigateTo(AuthPath)

----------------------------------------------------------------------------
(* WorkoutLogger's rest timer: SpecRest. The browser's timers are the set of live
   intervals and the set of pending timeouts; time is not measured, so a timer
   that is live may fire at any step. The logger is on screen on its main view,
   with its session initialised. *)

MaxStarts == 3      \* startRestTimer calls per behaviour
RestSeconds == 3    \* the longest rest, in seconds (the code's one caller passes 180)

Durations == 1..RestSeconds

(* The logger's variables SpecRest does not move *)
loggerSession == <<plan, stored, currentExerciseIndex, loggedWorkoutExercises, startTime,
                   isInitialized, showDifficultyPrompt, effects, now, edits, atUnmount>>

InitRest ==
    /\ plan = <<PlanEntry("e1", 1)>>
    /\ mounted = TRUE
    /\ currentExerciseIndex = 0
    /\ loggedWorkoutExercises = FreshLogged(plan)
    /\ startTime = 1
    /\ isInitialized = TRUE
    /\ showDifficultyPrompt = FALSE
    /\ effects = <<>>
    /\ now = 1
    /\ edits = 0
    /\ atUnmount = NoEntry
    /\ stored = JSONStringify(StateToSave(Snapshot(FreshLogged(plan), 0, 1, TRUE)))
    /\ PageUnused /\ AuthUnused /\ ExtraUnused
    /\ restTimeLeft = 0
    /\ isResting = FALSE
    /\ restTimerIntervalId = 0
    /\ intervals = {}
    /\ timeouts = {}
    /\ pendingCleanup = 0
    /\ starts = 0
    /\ lastDuration = 0
    /\ skipped = FALSE

(* if (id) clearInterval(id): interval ids are positive, and 0 stands for null *)
ClearInterval(S, id) == {iv \in S : iv.id # id}

(* The live intervals once React has run the pending cleanup of the effect
   [restTimerIntervalId], which clears the id of the render before *)
Flushed == ClearInterval(intervals, pendingCleanup)

CountdownDone_AtZero(prev) == prev <= 0

(* if (prev <= 1) *)
CountdownDone(prev) == prev <= 1

(* startRestTimer(duration), from the button under the last set; the button stays
   in the document under the rest dialog. The render that follows the click
   flushes the effects. The interval's callback closes over this render's
   handleRestComplete, and so over this render's restTimerIntervalId. *)
startRestTimer(duration) ==
    /\ MainViewReady
    /\ starts < MaxStarts
    /\ intervals' = ClearInterval(Flushed, restTimerIntervalId)
                       \cup {[id |-> starts + 1, closureId |-> restTimerIntervalId]}
    /\ restTimeLeft' = duration
    /\ isResting' = TRUE
    /\ restTimerIntervalId' = starts + 1
    /\ starts' = starts + 1
    /\ lastDuration' = duration
    /\ skipped' = FALSE
    /\ pendingCleanup' = 0
    /\ UNCHANGED <<loggerSession, mounted, pageVars, authVars, extraVars, timeouts>>

(* The interval's callback: setRestTimeLeft(prev => ...), with clearInterval of
   its own id and handleRestComplete, which sets the timeout, at the end of the
   countdown. The render that follows flushes the effects. *)
RestTick(iv) ==
    /\ mounted
    /\ iv \in intervals
    /\ IF CountdownDone(restTimeLeft)
       THEN /\ restTimeLeft' = 0
            /\ intervals' = ClearInterval(Flushed, iv.id)
            /\ timeouts' = timeouts \cup {[by |-> iv.id, closureId |-> iv.closureId]}
       ELSE /\ restTimeLeft' = restTimeLeft - 1
            /\ intervals' = Flushed
            /\ UNCHANGED timeouts
    /\ pendingCleanup' = 0
    /\ UNCHANGED <<loggerSession, mounted, pageVars, authVars, extraVars, isResting, restTimerIntervalId,
                   starts, lastDuration, skipped>>

(* The timeout of handleRestComplete, two seconds after the countdown's end. Its
   render is not the render of a user event: the cleanup of the effect
   [restTimerIntervalId] stays pending until React flushes the effects. *)
RestCompleteTimeout(t) ==
    /\ mounted
    /\ t \in timeouts
    /\ timeouts' = timeouts \ {t}
    /\ isResting' = FALSE
    /\ intervals' = ClearInterval(Flushed, t.closureId)
    /\ restTimerIntervalId' = 0
    /\ pendingCleanup' = restTimerIntervalId
    /\ UNCHANGED <<loggerSession, mounted, pageVars, authVars, extraVars, restTimeLeft, starts,
                   lastDuration, skipped>>

(* React flushes the passive effects *)
FlushEffects ==
    /\ pendingCleanup # 0
    /\ intervals' = Flushed
    /\ pendingCleanup' = 0
    /\ UNCHANGED <<loggerSession, mounted, pageVars, authVars, extraVars, restTimeLeft, isResting,
                   restTimerIntervalId, timeouts, starts, lastDuration, skipped>>

(* skipRestTimer, from the dialog's button, which is shown while restTimeLeft > 0 *)
skipRestTimer ==
    /\ MainViewReady
    /\ isResting /\ restTimeLeft > 0
    /\ intervals' = ClearInterval(Flushed, restTimerIntervalId)
    /\ restTimerIntervalId' = 0
    /\ isResting' = FALSE
    /\ skipped' = TRUE
    /\ pendingCleanup' = 0
    /\ UNCHANGED <<loggerSession, mounted, pageVars, authVars, extraVars, restTimeLeft, timeouts, starts,
                   lastDuration>>

(* The logger is unmounted: the effect's cleanup clears the interval of the
   current id, the state is dropped, and the setState calls of the timeouts that
   are still pending act on no component. *)
UnmountResting ==
    /\ mounted
    /\ mounted' = FALSE
    /\ intervals' = ClearInterval(Flushed, restTimerIntervalId)
    /\ timeouts' = {}
    /\ restTimeLeft' = 0
    /\ isResting' = FALSE
    /\ restTimerIntervalId' = 0
    /\ pendingCleanup' = 0
    /\ UNCHANGED <<loggerSession, pageVars, authVars, extraVars, starts, lastDuration, skipped>>

(* The logger is mounted again and has restored its session *)
MountAgain ==
    /\ ~mounted
    /\ mounted' = TRUE
    /\ UNCHANGED <<loggerSession, pageVars, authVars, extraVars, restVars>>

TickStep == \E iv \in intervals : RestTick(iv)

TimeoutStep == \E t \in timeouts : RestCompleteTimeout(t)

NextRest ==
    \/ \E duration \in Durations : startRestTimer(duration)
    \/ TickStep
    \/ TimeoutStep
    \/ FlushEffects
    \/ skipRestTimer
    \/ UnmountResting
    \/ MountAgain

SpecRest == InitRest /\ [][NextRest]_vars

(* The browser fires every timer that stays live, and React flushes its effects *)
SpecRestFair ==
    SpecRest /\ WF_vars(TickStep) /\ WF_vars(TimeoutStep) /\ WF_vars(FlushEffects)

----------------------------------------------------------------------------
(* The countdown *)

(* C9: startRestTimer(d) sets restTimeLeft to d and isResting to true; a tick at
   restTimeLeft > 1 takes exactly 1 off; a tick at restTimeLeft <= 1 sets it to 0
   and leaves no live interval; restTimeLeft stays within 0..d for the d of the
   latest start, and only startRestTimer increases it. *)
C9_Countdown ==
    /\ [](restTimeLeft >= 0 /\ restTimeLeft <= lastDuration)
    /\ [][/\ (starts' # starts) => (restTimeLeft' = lastDuration' /\ isResting')
          /\ (TickStep /\ restTimeLeft > 1) => restTimeLeft' = restTimeLeft - 1
          /\ (TickStep /\ restTimeLeft <= 1) => (restTimeLeft' = 0 /\ intervals' = {})
          /\ (restTimeLeft' > restTimeLeft) => starts' = starts + 1]_vars

(* A rest of the longest duration has counted down to 0 and its dialog is still up *)
C9_Witness ==
    /\ lastDuration = RestSeconds
    /\ restTimeLeft = 0 /\ isResting
    /\ intervals = {}
    /\ \E t \in timeouts : t.by = restTimerIntervalId

(* C10: a rest that is started and not skipped counts down to 0, and then the
   rest ends: isResting false and restTimerIntervalId null; skipRestTimer ends the
   rest at once, and restTimeLeft does not change again before the next start. *)
C10_EveryStartedRestEnds ==
    /\ (isResting /\ restTimeLeft > 0) ~> (restTimeLeft = 0 \/ skipped \/ ~mounted)
    /\ (isResting /\ restTimeLeft = 0) ~> (~isResting /\ restTimerIntervalId = 0)
    /\ [][(skipped /\ starts' = starts /\ mounted')
             => (restTimeLeft' = restTimeLeft /\ ~isResting')]_vars
    /\ [][(skipRestTimer) => (~isResting' /\ restTimerIntervalId' = 0 /\ intervals' = {})]_vars

----------------------------------------------------------------------------
(* routineSeeder: getCanonicalMuscleGroup (SpecCanonical).
   A name is its letters in lower case without marks (base) and what the
   normalisation removes: combining marks on some letter (accent), upper-case
   letters (upper), surrounding whitespace (pad). The empty string is the name
   with the empty base and nothing else. *)

Plain(b) == [base |-> b, accent |-> FALSE, upper |-> FALSE, pad |-> FALSE]

Accented(b) == [base |-> b, accent |-> TRUE, upper |-> FALSE, pad |-> FALSE]

PlainAll(S) == {Plain(b) : b \in S}

(* The synonym lists, as written in the source: six entries carry an accent *)
MUSCLE_GROUP_SYNONYMS ==
    "pecho" :> PlainAll({"pecho", "pectoral", "pectorales", "chest", "pecs"})
    @@ "espalda" :> PlainAll({"espalda", "dorsal", "dorsales", "back", "lats", "trapecio",
                              "trapecios", "remo", "espalda baja", "lumbares"})
    @@ "hombros" :> PlainAll({"hombro", "hombros", "deltoides", "shoulders", "delts"})
    @@ "triceps" :> {Plain("triceps"), Accented("triceps")}
    @@ "biceps" :> {Plain("biceps"), Accented("biceps"), Plain("brazos")}
    @@ "piernas" :>
         (PlainAll({"piernas", "pierna", "tren inferior", "legs",
                    "cuadriceps", "quads", "quadriceps",
                    "isquiotibiales", "isquiotibial", "femoral", "femorales", "hamstrings",
                    "isquios", "isquiosurales", "corva", "parte posterior pierna",
                    "biceps femoral",
                    "gluteos", "glute", "glutes", "cadera", "caderas", "nalgas", "gluteo mayor",
                    "pantorrillas", "pantorrilla", "gemelos", "gemelo", "calves", "calf",
                    "soleo", "gastrocnemio"})
          \cup {Accented("cuadriceps"), Accented("gluteo"), Accented("gluteos"),
                Accented("soleo")})
    @@ "abdominales" :> PlainAll({"abdominales", "abdominal", "abdomen", "abs", "core",
                                  "oblicuos"})

CanonicalNames == DOMAIN MUSCLE_GROUP_SYNONYMS

ListedSynonyms == UNION {MUSCLE_GROUP_SYNONYMS[c] : c \in CanonicalNames}

(* CANONICAL_GROUP_MAP.get(key): the lists share no entry, so the order in which
   the map was filled does not matter; "" stands for undefined *)
CANONICAL_GROUP_MAP(key) ==
    IF key \in ListedSynonyms
    THEN CHOOSE c \in CanonicalNames : key \in MUSCLE_GROUP_SYNONYMS[c]
    ELSE ""

(* .trim() *)
Trim(name) == [name EXCEPT !.pad = FALSE]

(* .toLowerCase() *)
ToLowerCase(name) == [name EXCEPT !.upper = FALSE]

(* .normalize('NFD').replace(/[\u0300-\u036f]/g, '') *)
StripMarks(name) == [name EXCEPT !.accent = FALSE]

Normalized(name) == StripMarks(ToLowerCase(Trim(name)))

getCanonicalMuscleGroup_NoNormalise(name) ==
    IF name = Plain("") THEN Plain("")
    ELSE IF CANONICAL_GROUP_MAP(name) # ""
         THEN Plain(CANONICAL_GROUP_MAP(name))
         ELSE name

getCanonicalMuscleGroup(name) ==
    IF name = Plain("") THEN Plain("")
    ELSE IF CANONICAL_GROUP_MAP(Normalized(name)) # ""
         THEN Plain(CANONICAL_GROUP_MAP(Normalized(name)))
         ELSE Normalized(name)

(* The names the function is applied to: every listed synonym and canonical name,
   a name outside the lists, the empty name, each in every decoration *)
Bases == {n.base : n \in ListedSynonyms} \cup CanonicalNames \cup {"gluteo", "cardio"}

GroupNames ==
    {[base |-> b, accent |-> a, upper |-> u, pad |-> w] :
        b \in Bases, a \in BOOLEAN, u \in BOOLEAN, w \in BOOLEAN}
    \cup {Plain(""), [base |-> "", accent |-> FALSE, upper |-> FALSE, pad |-> TRUE]}

(* The other components' variables in the seeder's specifications *)
OthersUnused ==
    /\ plan = <<PlanEntry("e1", 1)>>
    /\ stored = NoEntry
    /\ now = 1
    /\ LoggerUnused /\ PageUnused /\ AuthUnused /\ RestUnused /\ FormUnused /\ AIUnused
    /\ AdHocUnused

otherVars == <<loggerVars, pageVars, authVars, restVars, formVars, aiVars, adhocVars>>

InitCanonical ==
    /\ groupName \in GroupNames
    /\ canonicalGroup = Null
    /\ canonicalAgain = Null
    /\ exercises = <<>>
    /\ workouts = <<>>
    /\ workout_exercises = {}
    /\ seedPc = "idle"
    /\ seedLocal = Null
    /\ seedResult = Null
    /\ seedCalls = 0
    /\ seedHistory = Null
    /\ OthersUnused

seedTables == <<exercises, workouts, workout_exercises, seedPc, seedLocal, seedResult,
                seedCalls, seedHistory>>

Canonicalise ==
    /\ canonicalGroup = Null
    /\ canonicalGroup' = getCanonicalMuscleGroup(groupName)
    /\ UNCHANGED <<otherVars, seedTables, groupName, canonicalAgain>>

CanonicaliseAgain ==
    /\ canonicalGroup # Null /\ canonicalAgain = Null
    /\ canonicalAgain' = getCanonicalMuscleGroup(canonicalGroup)
    /\ UNCHANGED <<otherVars, seedTables, groupName, canonicalGroup>>

NextCanonical == Canonicalise \/ CanonicaliseAgain

SpecCanonical == InitCanonical /\ [][NextCanonical]_vars

(* C13: names that differ only in case, surrounding whitespace or accents have
   the same result; a listed synonym has the canonical name of its list as its
   result; a name whose normalised form is not listed has its normalised form;
   the empty name has ''; applying the function to its result returns the result. *)
C13_CanonicalGroup ==
    canonicalGroup # Null =>
       /\ \A other \in GroupNames :
             other.base = groupName.base => getCanonicalMuscleGroup(other) = canonicalGroup
       /\ \A c \in CanonicalNames :
             groupName \in MUSCLE_GROUP_SYNONYMS[c] => canonicalGroup = Plain(c)
       /\ Normalized(groupName) \notin ListedSynonyms => canonicalGroup = Normalized(groupName)
       /\ groupName = Plain("") => canonicalGroup = Plain("")
       /\ canonicalAgain # Null => canonicalAgain = canonicalGroup

----------------------------------------------------------------------------
(* routineSeeder: seedDefaultWorkouts (SpecSeeder), one action per await.
   handleSeedRoutines calls it with user.id of the signed-in user. *)

MaxSeedCalls == 2     \* calls of seedDefaultWorkouts per behaviour

UserId == "u1"

Entry(group, count) == [muscleGroup |-> Plain(group), count |-> count]

(* ROUTINE_TEMPLATES; exerciseDistribution in the order of Object.entries *)
ROUTINE_TEMPLATES ==
    << [nombre |-> "Dia de Empuje (Push) - Autogenerado",
        exerciseDistribution |-> <<Entry("pecho", 2), Entry("hombros", 2), Entry("triceps", 1)>>],
       [nombre |-> "Dia de Tiron (Pull) - Autogenerado",
        exerciseDistribution |-> <<Entry("espalda", 3), Entry("biceps", 2)>>],
       [nombre |-> "Dia de Piernas - Autogenerado",
        exerciseDistribution |-> <<Entry("piernas", 5)>>],
       [nombre |-> "Cuerpo Completo (Full Body) - Autogenerado",
        exerciseDistribution |-> <<Entry("piernas", 1), Entry("pecho", 1), Entry("espalda", 1),
                                   Entry("hombros", 1), Entry("abdominales", 1)>>] >>

TemplateNames == {ROUTINE_TEMPLATES[i].nombre : i \in 1..Len(ROUTINE_TEMPLATES)}

Exercise(id, group) == [id |-> id, grupo_muscular |-> group]

Upper(b) == [base |-> b, accent |-> FALSE, upper |-> TRUE, pad |-> FALSE]

Padded(b) == [base |-> b, accent |-> FALSE, upper |-> FALSE, pad |-> TRUE]

(* The exercises of a push day, written as a library writes them *)
PushExercises ==
    <<Exercise("x1", Upper("pecho")), Exercise("x2", Padded("pectoral")),
      Exercise("x3", Plain("hombros")), Exercise("x4", Upper("deltoides")),
      Exercise("x5", [base |-> "triceps", accent |-> TRUE, upper |-> TRUE, pad |-> FALSE])>>

PullExercises ==
    <<Exercise("y1", Plain("espalda")), Exercise("y2", Upper("dorsal")),
      Exercise("y3", Plain("remo")),
      Exercise("y4", Accented("biceps")), Exercise("y5", Plain("brazos"))>>

(* The libraries, each in the order the select returns it: empty; a push day
   with legs one short of five (four, and one under 'Gluteo' with its accent) and
   an exercise without group; a full body with two chest exercises; a push day
   and a pull day. *)
Libraries ==
    { <<>>,
      PushExercises \o <<Exercise("z1", Plain("piernas")), Exercise("z2", Plain("quads")),
                         Exercise("z3", Upper("femoral")), Exercise("z4", Plain("gemelos")),
                         Exercise("z5", [base |-> "gluteo", accent |-> TRUE, upper |-> TRUE,
                                         pad |-> FALSE]),
                         Exercise("z6", Plain(""))>>,
      <<Exercise("z1", Plain("piernas")), Exercise("x1", Upper("pecho")),
        Exercise("x2", Padded("pectoral")), Exercise("y1", Plain("espalda")),
        Exercise("x3", Plain("hombros")), Exercise("a1", Plain("core")),
        Exercise("c1", Plain("cardio"))>>,
      PushExercises \o PullExercises }

WorkoutRow(id, nombre) == [id |-> id, user_id |-> UserId, nombre |-> nombre]

(* The user's workouts before the first call: none; one made by hand and one
   with the first template's name; all four templates' names *)
InitialWorkoutNames ==
    { <<>>,
      <<"Mi rutina", ROUTINE_TEMPLATES[1].nombre>>,
      [i \in 1..Len(ROUTINE_TEMPLATES) |-> ROUTINE_TEMPLATES[i].nombre] }

InitSeeder ==
    /\ groupName = Null
    /\ canonicalGroup = Null
    /\ canonicalAgain = Null
    /\ exercises \in Libraries
    /\ \E names \in InitialWorkoutNames :
          /\ workouts = [i \in 1..Len(names) |-> WorkoutRow(i, names[i])]
    /\ workout_exercises = {}
    /\ seedPc = "idle"
    /\ seedLocal = Null
    /\ seedResult = Null
    /\ seedCalls = 0
    /\ seedHistory = Null
    /\ OthersUnused

canonicalVars == <<groupName, canonicalGroup, canonicalAgain>>

(* exercisesByMuscleGroup.get(group) || []: the exercises whose canonical group
   is the group, in the order of allExercises; exercises whose canonical group is
   '' are in no pool *)
ExercisePool(allExercises, group) ==
    SelectSeq(allExercises,
              LAMBDA ex : /\ getCanonicalMuscleGroup(ex.grupo_muscular) # Plain("")
                          /\ getCanonicalMuscleGroup(ex.grupo_muscular) = group)

(* The first loop over the exerciseDistribution: canCreateRoutine *)
CanCreateRoutine(template, allExercises) ==
    \A k \in 1..Len(template.exerciseDistribution) :
        Len(ExercisePool(allExercises,
               getCanonicalMuscleGroup(template.exerciseDistribution[k].muscleGroup)))
           >= template.exerciseDistribution[k].count

(* Math.floor(Math.random() * (i + 1)) for the values of Math.random() at the two
   ends of [0, 1): index 0 and index i, here counted from 1 *)
RandomIndex(i) == {1, i}

Swap(array, i, j) == [array EXCEPT ![i] = array[j], ![j] = array[i]]

(* The loop of shuffleArray from index i down: every array it can end with *)
RECURSIVE ShuffleFrom(_, _)
ShuffleFrom(shuffled, i) ==
    IF i <= 1 THEN {shuffled}
    ELSE UNION {ShuffleFrom(Swap(shuffled, i, j), i - 1) : j \in RandomIndex(i)}

(* shuffleArray(array) *)
ShuffleArray(array) == ShuffleFrom(array, Len(array))

(* shuffleArray(exercisePool).slice(0, count) *)
Picks(pool, count) == {SubSeq(shuffledPool, 1, count) : shuffledPool \in ShuffleArray(pool)}

(* The second loop: every selectedExercisesForRoutine it can build *)
RECURSIVE SelectionsFrom(_, _, _)
SelectionsFrom(distribution, allExercises, k) ==
    IF k > Len(distribution) THEN {<<>>}
    ELSE {picked \o rest :
            picked \in Picks(ExercisePool(allExercises,
                                getCanonicalMuscleGroup(distribution[k].muscleGroup)),
                             distribution[k].count),
            rest \in SelectionsFrom(distribution, allExercises, k + 1)}

Selections(template, allExercises) ==
    SelectionsFrom(template.exerciseDistribution, allExercises, 1)

Result(success, message) == [success |-> success, message |-> message]

(* return {success, message} *)
SeedReturns(result) ==
    /\ seedResult' = result
    /\ seedPc' = "idle"
    /\ seedLocal' = Null

(* The call, up to the first await *)
seedDefaultWorkouts ==
    /\ seedPc = "idle"
    /\ seedCalls < MaxSeedCalls
    /\ seedCalls' = seedCalls + 1
    /\ seedPc' = "fetchExercises"
    /\ seedLocal' = [allExercises |-> <<>>, queue |-> <<>>, selected |-> <<>>,
                     newWorkout |-> Null, routinesCreatedCount |-> 0]
    /\ seedResult' = Null
    /\ seedHistory' = [before |-> workouts, read |-> FALSE, existing |-> {}, skipped |-> {},
                       attempted |-> {}, inserted |-> {}, counted |-> {}, failed |-> {}]
    /\ UNCHANGED <<otherVars, canonicalVars, exercises, workouts, workout_exercises>>

(* 1. supabase.from('exercises').select('*') returns *)
FetchAllExercises(ok) ==
    /\ seedPc = "fetchExercises"
    /\ IF ~ok
       THEN SeedReturns(Result(FALSE, "Error al crear rutinas"))
       ELSE IF Len(exercises) = 0
            THEN SeedReturns(Result(FALSE, "No hay ejercicios disponibles"))
            ELSE /\ seedLocal' = [seedLocal EXCEPT !.allExercises = exercises]
                 /\ seedPc' = "fetchExisting"
                 /\ UNCHANGED seedResult
    /\ UNCHANGED <<otherVars, canonicalVars, exercises, workouts, workout_exercises,
                   seedCalls, seedHistory>>

(* ROUTINE_TEMPLATES.filter(template => !existingWorkoutNames.has(template.nombre)) *)
RoutinesToCreateTemplates_All(existingWorkoutNames) == ROUTINE_TEMPLATES

RoutinesToCreateTemplates(existingWorkoutNames) ==
    SelectSeq(ROUTINE_TEMPLATES, LAMBDA template : template.nombre \notin existingWorkoutNames)

(* 2. the select of the user's workout names returns *)
FetchExistingWorkouts(ok) ==
    /\ seedPc = "fetchExisting"
    /\ IF ~ok
       THEN /\ SeedReturns(Result(FALSE, "Error al crear rutinas"))
            /\ UNCHANGED seedHistory
       ELSE LET existingWorkoutNames == {workouts[i].nombre : i \in 1..Len(workouts)}
                queue == RoutinesToCreateTemplates(existingWorkoutNames)
            IN  /\ seedHistory' = [seedHistory EXCEPT !.read = TRUE,
                                                      !.existing = existingWorkoutNames]
                /\ IF queue = <<>>
                   THEN SeedReturns(Result(TRUE, "ya existen"))
                   ELSE /\ seedLocal' = [seedLocal EXCEPT !.queue = queue]
                        /\ seedPc' = "loop"
                        /\ UNCHANGED seedResult
    /\ UNCHANGED <<otherVars, canonicalVars, exercises, workouts, workout_exercises,
                   seedCalls>>

(* The head of the for loop, up to the insert of the workout: validation, then
   selection; a template that cannot be created is skipped *)
BeginTemplate ==
    /\ seedPc = "loop"
    /\ seedLocal.queue # <<>>
    /\ LET template == Head(seedLocal.queue) IN
         IF ~CanCreateRoutine(template, seedLocal.allExercises)
         THEN /\ seedLocal' = [seedLocal EXCEPT !.queue = Tail(seedLocal.queue)]
              /\ seedHistory' = [seedHistory EXCEPT !.skipped = @ \cup {template.nombre}]
              /\ UNCHANGED seedPc
         ELSE \E selected \in Selections(template, seedLocal.allExercises) :
                 IF Len(selected) = 0
                 THEN /\ seedLocal' = [seedLocal EXCEPT !.queue = Tail(seedLocal.queue)]
                      /\ UNCHANGED <<seedPc, seedHistory>>
                 ELSE /\ seedLocal' = [seedLocal EXCEPT !.selected = selected]
                      /\ seedPc' = "insertWorkout"
                      /\ seedHistory' = [seedHistory EXCEPT !.attempted = @ \cup {template.nombre}]
    /\ UNCHANGED <<otherVars, canonicalVars, exercises, workouts, workout_exercises,
                   seedResult, seedCalls>>

(* The id the table gives a new row: an id no row of workouts has and no row of
   workout_exercises refers to (the smallest, of all the ids that would do) *)
FreshWorkoutId ==
    LET used == {workouts[i].id : i \in 1..Len(workouts)}
                   \cup {row.workout_id : row \in workout_exercises}
    IN  CHOOSE id \in 1..(Cardinality(used) + 1) :
            /\ id \notin used
            /\ \A smaller \in 1..(id - 1) : smaller \in used

(* 4a. the insert into workouts returns *)
InsertSeededWorkout(ok) ==
    /\ seedPc = "insertWorkout"
    /\ IF ok
       THEN LET newWorkout == WorkoutRow(FreshWorkoutId, Head(seedLocal.queue).nombre) IN
              /\ workouts' = Append(workouts, newWorkout)
              /\ seedLocal' = [seedLocal EXCEPT !.newWorkout = newWorkout]
              /\ seedHistory' = [seedHistory EXCEPT !.inserted = @ \cup {newWorkout.id}]
              /\ seedPc' = "insertExercises"
       ELSE /\ seedLocal' = [seedLocal EXCEPT !.queue = Tail(seedLocal.queue), !.selected = <<>>]
            /\ seedPc' = "loop"
            /\ UNCHANGED <<workouts, seedHistory>>
    /\ UNCHANGED <<otherVars, canonicalVars, exercises, workout_exercises, seedResult, seedCalls>>

ExercisesToInsert_ZeroBased(shuffled, newWorkout) ==
    {[workout_id |-> newWorkout.id, exercise_id |-> shuffled[index].id, orden |-> index - 1,
      series |-> 3, repeticiones |-> 10] : index \in 1..Len(shuffled)}

(* shuffled.map((exercise, index) => ({workout_id, exercise_id, orden: index + 1,
   series: 3, repeticiones: 10})), index from 0 *)
ExercisesToInsert(shuffled, newWorkout) ==
    {[workout_id |-> newWorkout.id, exercise_id |-> shuffled[index].id, orden |-> index,
      series |-> 3, repeticiones |-> 10] : index \in 1..Len(shuffled)}

(* 4b. the insert into workout_exercises returns *)
InsertWorkoutExercises(ok) ==
    /\ seedPc = "insertExercises"
    /\ IF ok
       THEN /\ \E shuffled \in ShuffleArray(seedLocal.selected) :
                 workout_exercises' =
                     workout_exercises \cup ExercisesToInsert(shuffled, seedLocal.newWorkout)
            /\ seedLocal' = [seedLocal EXCEPT !.queue = Tail(seedLocal.queue),
                                              !.selected = <<>>, !.newWorkout = Null,
                                              !.routinesCreatedCount = @ + 1]
            /\ seedHistory' = [seedHistory EXCEPT !.counted = @ \cup {seedLocal.newWorkout.id}]
            /\ seedPc' = "loop"
       ELSE /\ seedHistory' = [seedHistory EXCEPT !.failed = @ \cup {seedLocal.newWorkout.id}]
            /\ seedPc' = "deleteWorkout"
            /\ UNCHANGED <<workout_exercises, seedLocal>>
    /\ UNCHANGED <<otherVars, canonicalVars, exercises, workouts, seedResult,
                   seedCalls>>

DeleteSeededWorkout_Keeps(ok) ==
    /\ seedPc = "deleteWorkout"
    /\ UNCHANGED workouts
    /\ seedLocal' = [seedLocal EXCEPT !.queue = Tail(seedLocal.queue),
                                      !.selected = <<>>, !.newWorkout = Null]
    /\ seedPc' = "loop"
    /\ UNCHANGED <<otherVars, canonicalVars, exercises, workout_exercises,
                   seedResult, seedCalls, seedHistory>>

(* The delete of the workout returns; its error is not read *)
DeleteSeededWorkout(ok) ==
    /\ seedPc = "deleteWorkout"
    /\ workouts' = IF ok
                   THEN SelectSeq(workouts, LAMBDA w : w.id # seedLocal.newWorkout.id)
                   ELSE workouts
    /\ seedLocal' = [seedLocal EXCEPT !.queue = Tail(seedLocal.queue),
                                      !.selected = <<>>, !.newWorkout = Null]
    /\ seedPc' = "loop"
    /\ UNCHANGED <<otherVars, canonicalVars, exercises, workout_exercises,
                   seedResult, seedCalls, seedHistory>>

(* After the loop *)
FinishSeed ==
    /\ seedPc = "loop"
    /\ seedLocal.queue = <<>>
    /\ SeedReturns(IF seedLocal.routinesCreatedCount > 0
                   THEN Result(TRUE, "generadas con exito")
                   ELSE Result(FALSE, "No se pudieron crear nuevas rutinas"))
    /\ UNCHANGED <<otherVars, canonicalVars, exercises, workouts, workout_exercises,
                   seedCalls, seedHistory>>

NextSeeder ==
    \/ seedDefaultWorkouts
    \/ \E ok \in BOOLEAN : FetchAllExercises(ok)
    \/ \E ok \in BOOLEAN : FetchExistingWorkouts(ok)
    \/ BeginTemplate
    \/ \E ok \in BOOLEAN : InsertSeededWorkout(ok)
    \/ \E ok \in BOOLEAN : InsertWorkoutExercises(ok)
    \/ \E ok \in BOOLEAN : DeleteSeededWorkout(ok)
    \/ FinishSeed

SpecSeeder == InitSeeder /\ [][NextSeeder]_vars

----------------------------------------------------------------------------
(* The seeder's contract *)

NamesOf(rows) == {rows[i].nombre : i \in 1..Len(rows)}

RowsOfWorkout(id) == {row \in workout_exercises : row.workout_id = id}

SeedReturned == seedPc = "idle" /\ seedResult # Null

(* A workout row is added in this step *)
WorkoutInserted == Len(workouts') = Len(workouts) + 1

AtMostOnePerTemplateName ==
    \A i, j \in 1..Len(workouts) :
        (workouts[i].nombre = workouts[j].nombre /\ workouts[i].nombre \in TemplateNames)
           => i = j

(* C11: the seeder inserts no workout whose nombre is already among the user's
   workouts, so with calls one after another the user has at most one workout per
   template name; a call made when all four template names exist inserts nothing,
   and returns success = true when both of its reads succeeded (which needs a
   library that is not empty). *)
C11_NoDuplicateNames ==
    /\ [][WorkoutInserted => workouts'[Len(workouts')].nombre \notin NamesOf(workouts)]_vars
    /\ []AtMostOnePerTemplateName
    /\ [](SeedReturned /\ TemplateNames \subseteq NamesOf(seedHistory.before)
             => /\ workouts = seedHistory.before
                /\ seedHistory.inserted = {}
                /\ seedHistory.read => seedResult.success)

(* The second call has read a template name whose routine the first call created,
   and has returned without inserting a workout *)
C11_Witness ==
    /\ seedCalls = 2 /\ SeedReturned /\ seedHistory.read
    /\ workouts = seedHistory.before
    /\ \E i \in 1..Len(workouts) :
          /\ workouts[i].nombre \in TemplateNames
          /\ RowsOfWorkout(workouts[i].id) # {}

(* C11 as stated: the call made when all four names exist returns success = true *)
C11_AsStated ==
    SeedReturned /\ TemplateNames \subseteq NamesOf(seedHistory.before)
       => (workouts = seedHistory.before /\ seedResult.success)

TemplateNamed(nombre) ==
    ROUTINE_TEMPLATES[CHOOSE i \in 1..Len(ROUTINE_TEMPLATES) : ROUTINE_TEMPLATES[i].nombre = nombre]

ExerciseWithId(id) == exercises[CHOOSE i \in 1..Len(exercises) : exercises[i].id = id]

(* The number of the library's exercises of a canonical group *)
LibraryCount(group) ==
    Cardinality({i \in 1..Len(exercises) :
                    getCanonicalMuscleGroup(exercises[i].grupo_muscular) = group})

(* The rows of a routine are as its template asks *)
RoutineAsTemplate(rows, template) ==
    LET distribution == template.exerciseDistribution
        groupOf == [row \in rows |->
                      getCanonicalMuscleGroup(ExerciseWithId(row.exercise_id).grupo_muscular)]
    IN  /\ \A k \in 1..Len(distribution) :
              Cardinality({row \in rows : groupOf[row] = distribution[k].muscleGroup})
                 = distribution[k].count
        /\ \A row \in rows :
              \E k \in 1..Len(distribution) : groupOf[row] = distribution[k].muscleGroup
        /\ \A r1, r2 \in rows : r1.exercise_id = r2.exercise_id => r1 = r2
        /\ {row.orden : row \in rows} = 1..Cardinality(rows)
        /\ \A r1, r2 \in rows : r1.orden = r2.orden => r1 = r2
        /\ \A row \in rows : row.series = 3 /\ row.repeticiones = 10

(* C12: a workout row is inserted only for a template every group of which has
   enough exercises of that canonical group in the library; the rows of every
   routine that was created have exactly the required number of exercises of each
   canonical group and of no other, no exercise twice, orden exactly 1..n, series
   3 and repeticiones 10. *)
C12_AllOrNothing ==
    /\ [][WorkoutInserted =>
            LET template == TemplateNamed(workouts'[Len(workouts')].nombre) IN
              \A k \in 1..Len(template.exerciseDistribution) :
                 LibraryCount(template.exerciseDistribution[k].muscleGroup)
                    >= template.exerciseDistribution[k].count]_vars
    /\ [](\A i \in 1..Len(workouts) :
             RowsOfWorkout(workouts[i].id) # {}
                => RoutineAsTemplate(RowsOfWorkout(workouts[i].id),
                                     TemplateNamed(workouts[i].nombre)))
    /\ [](seedPc # "idle" =>
             \A nombre \in seedHistory.skipped : nombre \notin seedHistory.attempted)

(* A call that created the full body routine from a library with two chest
   exercises and skipped the push day, for which the library has one shoulder
   exercise *)
C12_Witness ==
    /\ SeedReturned
    /\ ROUTINE_TEMPLATES[1].nombre \in seedHistory.skipped
    /\ \E i \in 1..Len(workouts) :
          /\ workouts[i].nombre = ROUTINE_TEMPLATES[4].nombre
          /\ workouts[i].id \in seedHistory.counted
          /\ Cardinality(RowsOfWorkout(workouts[i].id)) = 5

(* C17: when the insert of a new workout's rows fails the workout row is deleted
   and not counted, so a returned call leaves no workout it inserted without
   rows; the templates after it are processed; a call that got as far as reading
   the names returns success = true exactly when a routine was fully created or
   every template name existed. *)
C17_Rollback ==
    SeedReturned =>
       /\ \A id \in seedHistory.failed :
             /\ id \notin seedHistory.counted
             /\ \A i \in 1..Len(workouts) : workouts[i].id # id
       /\ \A i \in 1..Len(workouts) :
             workouts[i].id \in seedHistory.inserted => RowsOfWorkout(workouts[i].id) # {}
       /\ seedHistory.read
             => /\ TemplateNames \ seedHistory.existing
                      \subseteq (seedHistory.skipped \cup seedHistory.attempted)
                /\ seedResult.success
                      <=> (seedHistory.counted # {}
                             \/ TemplateNames \subseteq seedHistory.existing)

----------------------------------------------------------------------------
(* RoutineForm: the selected exercises, the exercise to add, handleSubmit.
   A click or a change is a discrete event: React renders before the next one,
   so every handler reads the state the one before it wrote. *)

MaxFormOps == 3     \* calls of the handlers that read or write the list, per behaviour

(* The ids of availableExercises, the options of the select *)
ExerciseIds == {"e1", "e2", "e3"}

Undefined == [kind |-> "undefined"]

NaN == [kind |-> "NaN"]

(* What the name input can hold *)
Nombres == {"", " ", " Torso "}

(* nombre.trim() *)
TrimNombre(value) ==
    CASE value = " " -> ""
      [] value = " Torso " -> "Torso"
      [] OTHER -> value

(* What a number input of the form can hold *)
NumberInputs == {"", "5"}

(* parseInt(value, 10) *)
ParseInt(value) == IF value = "5" THEN [kind |-> "number", value |-> 5] ELSE NaN

isNaN(parsed) == parsed.kind = "NaN"

(* Number(e.target.value) of the series input of the exercise to add *)
SeriesInputs == {3, 4}

WorkoutExercise(exercise_id, series, repeticiones, orden) ==
    [exercise_id |-> exercise_id, series |-> series, repeticiones |-> repeticiones,
     orden |-> orden, peso_objetivo |-> Undefined]

(* The workouts the page can pass for editing, as fetchWorkouts builds them:
   exercises sorted by orden *)
InitialWorkouts ==
    { [nombre |-> "Torso",
       exercises |-> <<WorkoutExercise("e1", 3, 10, 1), WorkoutExercise("e2", 4, 8, 2)>>],
      [nombre |-> "Pierna",
       exercises |-> <<WorkoutExercise("e3", 3, 10, 1)>>] }

(* useEffect [initialWorkout] *)
InitialWorkoutEffect(workout) ==
    IF workout # Null
    THEN /\ formNombre' = workout.nombre
         /\ selectedExercises' =
               [i \in 1..Len(workout.exercises) |->
                   [exercise_id |-> workout.exercises[i].exercise_id,
                    series |-> workout.exercises[i].series,
                    repeticiones |-> workout.exercises[i].repeticiones,
                    orden |-> workout.exercises[i].orden,
                    peso_objetivo |-> workout.exercises[i].peso_objetivo]]
    ELSE /\ formNombre' = ""
         /\ selectedExercises' = <<>>

FormOthersUnused ==
    /\ plan = <<PlanEntry("e1", 1)>>
    /\ stored = NoEntry
    /\ now = 1
    /\ LoggerUnused /\ PageUnused /\ AuthUnused /\ RestUnused /\ SeedUnused /\ AIUnused
    /\ AdHocUnused

formOthers == <<loggerVars, pageVars, authVars, restVars, seedVars, aiVars, adhocVars>>

(* The form after its first render and the effect that follows it *)
InitForm ==
    /\ initialWorkout \in InitialWorkouts \cup {Null}
    /\ formNombre = IF initialWorkout # Null THEN initialWorkout.nombre ELSE ""
    /\ selectedExercises = IF initialWorkout # Null THEN initialWorkout.exercises ELSE <<>>
    /\ exerciseToAddId = ""
    /\ formSeries = 3
    /\ formRepeticiones = 10
    /\ formOps = 0
    /\ formLast = Null
    /\ FormOthersUnused

Handler(op, arg) == [op |-> op, arg |-> arg, called |-> FALSE, data |-> Null]

(* One more call of a handler of the list *)
CountHandler ==
    /\ formOps < MaxFormOps
    /\ formOps' = formOps + 1

(* RoutinesPage.handleStartEdit while the form is shown: the prop changes and
   the effect runs again *)
handleStartEdit(workout) ==
    /\ CountHandler
    /\ workout # initialWorkout
    /\ initialWorkout' = workout
    /\ InitialWorkoutEffect(workout)
    /\ formLast' = Handler("handleStartEdit", workout.nombre)
    /\ UNCHANGED <<exerciseToAddId, formSeries, formRepeticiones, formOthers>>

setNombre(value) ==
    /\ formNombre' = value
    /\ UNCHANGED <<formOps, formLast, initialWorkout, selectedExercises, exerciseToAddId, formSeries,
                   formRepeticiones, formOthers>>

setExerciseToAddId(value) ==
    /\ exerciseToAddId' = value
    /\ UNCHANGED <<formOps, formLast, initialWorkout, formNombre, selectedExercises, formSeries,
                   formRepeticiones, formOthers>>

setSeries(value) ==
    /\ formSeries' = value
    /\ UNCHANGED <<formOps, formLast, initialWorkout, formNombre, selectedExercises, exerciseToAddId,
                   formRepeticiones, formOthers>>

ExerciseExists_Never(list, id) == FALSE

(* selectedExercises.find(ex => ex.exercise_id === exerciseToAddId) *)
ExerciseExists(list, id) == \E i \in 1..Len(list) : list[i].exercise_id = id

handleAddExerciseToWorkout ==
    /\ CountHandler
    /\ formLast' = Handler("handleAddExerciseToWorkout", exerciseToAddId)
    /\ IF exerciseToAddId = "" \/ ExerciseExists(selectedExercises, exerciseToAddId)
       THEN UNCHANGED <<selectedExercises, exerciseToAddId, formSeries, formRepeticiones>>
       ELSE /\ selectedExercises' =
                  Append(selectedExercises,
                         [exercise_id |-> exerciseToAddId, series |-> formSeries,
                          repeticiones |-> formRepeticiones,
                          orden |-> Len(selectedExercises) + 1])
            /\ exerciseToAddId' = ""
            /\ formSeries' = 3
            /\ formRepeticiones' = 10
    /\ UNCHANGED <<initialWorkout, formNombre, formOthers>>

handleRemoveExercise(exerciseIdToRemove) ==
    /\ CountHandler
    /\ ExerciseExists(selectedExercises, exerciseIdToRemove)
    /\ selectedExercises' =
          SelectSeq(selectedExercises, LAMBDA ex : ex.exercise_id # exerciseIdToRemove)
    /\ formLast' = Handler("handleRemoveExercise", exerciseIdToRemove)
    /\ UNCHANGED <<initialWorkout, formNombre, exerciseToAddId, formSeries,
                   formRepeticiones, formOthers>>

(* The fields of the two inputs of a list entry *)
UpdateFields == {"series", "repeticiones"}

handleUpdateExerciseInWorkout(index, field, value) ==
    /\ CountHandler
    /\ index \in 1..Len(selectedExercises)
    /\ LET parsed == ParseInt(value)
           number == IF isNaN(parsed) THEN 0 ELSE parsed.value
       IN  selectedExercises' =
              [selectedExercises EXCEPT ![index] =
                  IF field = "series" THEN [@ EXCEPT !.series = number]
                  ELSE [@ EXCEPT !.repeticiones = number]]
    /\ formLast' = Handler("handleUpdateExerciseInWorkout", <<index, field, value>>)
    /\ UNCHANGED <<initialWorkout, formNombre, exerciseToAddId, formSeries,
                   formRepeticiones, formOthers>>

(* peso_objetivo: ex.peso_objetivo, of an entry that may not have the field *)
PesoObjetivo(ex) == IF "peso_objetivo" \in DOMAIN ex THEN ex.peso_objetivo ELSE Undefined

SubmissionData_KeepOrden(nombre, list) ==
    [nombre |-> nombre,
     exercises |-> [index \in 1..Len(list) |->
                       [exercise_id |-> list[index].exercise_id,
                        series |-> list[index].series,
                        repeticiones |-> list[index].repeticiones,
                        peso_objetivo |-> PesoObjetivo(list[index]),
                        orden |-> list[index].orden]]]

(* submissionData: orden is index + 1, index from 0 *)
SubmissionData(nombre, list) ==
    [nombre |-> nombre,
     exercises |-> [index \in 1..Len(list) |->
                       [exercise_id |-> list[index].exercise_id,
                        series |-> list[index].series,
                        repeticiones |-> list[index].repeticiones,
                        peso_objetivo |-> PesoObjetivo(list[index]),
                        orden |-> index]]]

handleSubmit ==
    /\ CountHandler
    /\ IF TrimNombre(formNombre) = "" \/ Len(selectedExercises) = 0
       THEN /\ formLast' = Handler("handleSubmit", selectedExercises)
            /\ UNCHANGED <<initialWorkout, formNombre, selectedExercises, exerciseToAddId,
                           formSeries, formRepeticiones, formOthers>>
       ELSE /\ formLast' = [op |-> "handleSubmit", arg |-> selectedExercises,
                            called |-> TRUE,
                            data |-> SubmissionData(formNombre, selectedExercises)]
            /\ IF initialWorkout = Null
               THEN /\ formNombre' = ""
                    /\ selectedExercises' = <<>>
               ELSE UNCHANGED <<formNombre, selectedExercises>>
            /\ UNCHANGED <<initialWorkout, exerciseToAddId, formSeries, formRepeticiones,
                           formOthers>>

NextForm ==
    \/ \E workout \in InitialWorkouts : handleStartEdit(workout)
    \/ \E value \in Nombres : setNombre(value)
    \/ \E value \in ExerciseIds \cup {""} : setExerciseToAddId(value)
    \/ \E value \in SeriesInputs : setSeries(value)
    \/ handleAddExerciseToWorkout
    \/ \E id \in ExerciseIds : handleRemoveExercise(id)
    \/ \E index \in 1..Cardinality(ExerciseIds), field \in UpdateFields, value \in NumberInputs :
          handleUpdateExerciseInWorkout(index, field, value)
    \/ handleSubmit

SpecForm == InitForm /\ [][NextForm]_vars

(* The step is a call of the handler *)
FormStep(op) == formOps' = formOps + 1 /\ formLast'.op = op

(* The names that are empty once trimmed *)
BlankNombres == {"", " "}

IdsOf(list) == [i \in 1..Len(list) |-> list[i].exercise_id]

(* C14: whatever add, remove and update operations came before, the data that
   handleSubmit passes to onSubmit lists the selected exercises in their list
   order, with their series and repeticiones and with orden exactly 1..n, and
   onSubmit is not called when the trimmed name is empty or the list is empty. *)
C14_SubmitInOrder ==
    [][FormStep("handleSubmit") =>
         /\ formLast'.called <=> (formNombre \notin BlankNombres /\ selectedExercises # <<>>)
         /\ formLast'.called =>
               LET exs == formLast'.data.exercises IN
                 /\ IdsOf(exs) = IdsOf(selectedExercises)
                 /\ \A i \in 1..Len(exs) :
                       /\ exs[i].orden = i
                       /\ exs[i].series = selectedExercises[i].series
                       /\ exs[i].repeticiones = selectedExercises[i].repeticiones]_vars

(* onSubmit was called with a list in which, after a remove and an add, two
   entries had the same orden *)
C14_Witness ==
    /\ formLast # Null
    /\ formLast.op = "handleSubmit" /\ formLast.called
    /\ \E i, j \in 1..Len(formLast.arg) : i < j /\ formLast.arg[i].orden = formLast.arg[j].orden
    /\ \A i \in 1..Len(formLast.data.exercises) : formLast.data.exercises[i].orden = i

NoDuplicateExercise ==
    \A i, j \in 1..Len(selectedExercises) :
        selectedExercises[i].exercise_id = selectedExercises[j].exercise_id => i = j

(* C20: from a list without two entries of one exercise_id, the list never holds
   two; an add of an exercise in the list, or with no exercise selected, leaves
   the list as it is; a remove takes out exactly the entry of that exercise and
   keeps the others in their order. *)
C20_NoDuplicates ==
    /\ []NoDuplicateExercise
    /\ [][FormStep("handleAddExerciseToWorkout") =>
            IF exerciseToAddId = ""
                  \/ \E i \in 1..Len(selectedExercises) :
                        selectedExercises[i].exercise_id = exerciseToAddId
            THEN selectedExercises' = selectedExercises
            ELSE /\ Len(selectedExercises') = Len(selectedExercises) + 1
                 /\ SubSeq(selectedExercises', 1, Len(selectedExercises)) = selectedExercises
                 /\ selectedExercises'[Len(selectedExercises')].exercise_id = exerciseToAddId]_vars
    /\ [][FormStep("handleRemoveExercise") =>
            \E k \in 1..Len(selectedExercises) :
               /\ selectedExercises[k].exercise_id = formLast'.arg
               /\ selectedExercises' = SubSeq(selectedExercises, 1, k - 1)
                                          \o SubSeq(selectedExercises, k + 1, Len(selectedExercises))]_vars
    /\ [][FormStep("handleUpdateExerciseInWorkout") =>
            IdsOf(selectedExercises') = IdsOf(selectedExercises)]_vars

(* The middle one of three entries was removed *)
C20_Witness ==
    /\ formLast # Null
    /\ formLast.op = "handleRemoveExercise" /\ formLast.arg = "e2"
    /\ IdsOf(selectedExercises) = <<"e1", "e3">>

----------------------------------------------------------------------------
(* AIRoutineGeneratorModal (src/unnamed/part_001) and
   RoutinesPage.handleSaveAIGeneratedWorkout. A value parsed from the response
   is a record [kind, value]: undefined, a string, or an array. *)

MaxGenerations == 2     \* calls of handleGenerate per behaviour

JsString(value) == [kind |-> "string", value |-> value]

JsArray(value) == [kind |-> "array", value |-> value]

JsUndefined == [kind |-> "undefined"]

(* !value, for a string, an array or undefined *)
Falsy(value) ==
    \/ value.kind = "undefined"
    \/ value.kind = "string" /\ value.value = ""

LibraryExercise(id, nombre) == [id |-> id, nombre |-> nombre]

(* The libraries of the page: two exercises; three, two of them of one nombre *)
AILibraries ==
    { <<LibraryExercise("e1", "Press banca"), LibraryExercise("e2", "Remo")>>,
      <<LibraryExercise("e1", "Press banca"), LibraryExercise("e2", "Remo"),
        LibraryExercise("e3", "Remo")>> }

(* The entries a response can hold: library names and a name of no exercise;
   series a number or 0 *)
AIExercises ==
    [exerciseName : {"Press banca", "Remo", "Salto inventado"}, series : {0, 4},
     repeticiones : {12}]

AIExerciseLists ==
    {<<>>} \cup {<<ex>> : ex \in AIExercises}
           \cup {<<ex1, ex2>> : ex1 \in AIExercises, ex2 \in AIExercises}

(* What generateAIRoutine gives: an Error thrown, or the parsed JSON *)
AIResponses ==
    {[kind |-> "error"]}
       \cup {[kind |-> "json", nombre |-> nombre, exercises |-> exs] :
               nombre \in {JsUndefined, JsString(""), JsString("Torso IA")},
               exs \in {JsUndefined} \cup {JsArray(list) : list \in AIExerciseLists}}

AIOthersUnused ==
    /\ plan = <<PlanEntry("e1", 1)>>
    /\ stored = NoEntry
    /\ now = 1
    /\ LoggerUnused /\ PageUnused /\ AuthUnused /\ RestUnused /\ FormUnused /\ AdHocUnused

aiOthers == <<loggerVars, pageVars, authVars, restVars, formVars, adhocVars>>

aiSeedVars == <<groupName, canonicalGroup, canonicalAgain, exercises, seedPc, seedLocal,
                seedResult, seedCalls, seedHistory>>

(* The page with its library loaded, one workout of the user in the tables, the
   modal open *)
InitAI ==
    /\ availableExercises \in AILibraries
    /\ aiPc = "idle"
    /\ generatedWorkout = Null
    /\ aiError = Null
    /\ aiLocal = Null
    /\ aiHistory = [calls |-> 0, dropped |-> 0, written |-> {}]
    /\ workouts = <<WorkoutRow(1, "Mi rutina")>>
    /\ workout_exercises = {[workout_id |-> 1, exercise_id |-> "e1", orden |-> 1, series |-> 3,
                             repeticiones |-> 10]}
    /\ groupName = Null
    /\ canonicalGroup = Null
    /\ canonicalAgain = Null
    /\ exercises = <<>>
    /\ seedPc = "idle"
    /\ seedLocal = Null
    /\ seedResult = Null
    /\ seedCalls = 0
    /\ seedHistory = Null
    /\ AIOthersUnused

(* handleGenerate, up to the await; the response that will arrive is chosen here *)
handleGenerate(response) ==
    /\ aiPc = "idle"
    /\ aiHistory.calls < MaxGenerations
    /\ aiPc' = "generating"
    /\ aiError' = Null
    /\ generatedWorkout' = Null
    /\ aiLocal' = [response |-> response]
    /\ aiHistory' = [aiHistory EXCEPT !.calls = @ + 1, !.dropped = 0]
    /\ UNCHANGED <<availableExercises, workouts, workout_exercises, aiSeedVars, aiOthers>>

(* availableExercises.map(ex => ex.nombre) as a Set *)
ExerciseNameSet(library) == {library[i].nombre : i \in 1..Len(library)}

ValidExercises_All(list, library) == list

(* workout.exercises.filter(ex => exerciseNameSet.has(ex.exerciseName)) *)
ValidExercises(list, library) ==
    SelectSeq(list, LAMBDA ex : ex.exerciseName \in ExerciseNameSet(library))

(* The response arrives: validation; every throw ends in the catch *)
GenerateReturns ==
    /\ aiPc = "generating"
    /\ LET workout == aiLocal.response
           rejected ==
              \/ workout.kind = "error"
              \/ Falsy(workout.nombre)
              \/ Falsy(workout.exercises)
              \/ Len(workout.exercises.value) = 0
              \/ Len(ValidExercises(workout.exercises.value, availableExercises)) = 0
       IN  IF rejected
           THEN /\ aiError' = [kind |-> "message"]
                /\ UNCHANGED <<generatedWorkout, aiHistory>>
           ELSE /\ generatedWorkout' =
                      [nombre |-> workout.nombre.value,
                       exercises |-> ValidExercises(workout.exercises.value, availableExercises)]
                /\ aiHistory' =
                      [aiHistory EXCEPT !.dropped =
                          Len(workout.exercises.value)
                             - Len(ValidExercises(workout.exercises.value, availableExercises))]
                /\ UNCHANGED aiError
    /\ aiPc' = "idle"
    /\ aiLocal' = Null
    /\ UNCHANGED <<availableExercises, workouts, workout_exercises, aiSeedVars,
                   aiOthers>>

(* new Map(availableExercises.map(ex => [ex.nombre, ex.id])).get(nombre): the id
   of the last exercise of that nombre, or undefined *)
ExerciseNameToId(library, nombre) ==
    IF nombre \in ExerciseNameSet(library)
    THEN LET last == CHOOSE i \in 1..Len(library) :
                        /\ library[i].nombre = nombre
                        /\ \A j \in (i + 1)..Len(library) : library[j].nombre # nombre
         IN  JsString(library[last].id)
    ELSE JsUndefined

(* Number(value) || fallback *)
NumberOr(value, fallback) == IF value = 0 THEN fallback ELSE value

(* formattedExercises: map with the index of aiWorkout.exercises, then the
   filter of the entries that are not null *)
FormattedExercises(aiWorkout, library) ==
    LET mapped == [index \in 1..Len(aiWorkout.exercises) |->
                     LET aiEx == aiWorkout.exercises[index]
                         exerciseId == ExerciseNameToId(library, aiEx.exerciseName)
                     IN  IF Falsy(exerciseId) THEN Null
                         ELSE [kind |-> "row", exercise_id |-> exerciseId.value,
                               series |-> NumberOr(aiEx.series, 3),
                               repeticiones |-> NumberOr(aiEx.repeticiones, 10),
                               orden |-> index]]
    IN  SelectSeq(mapped, LAMBDA ex : ex # Null)

(* createExercisePayload(exercises, workout_id) *)
CreateExercisePayload(list, workout_id) ==
    {[workout_id |-> workout_id, exercise_id |-> list[i].exercise_id, orden |-> list[i].orden,
      series |-> list[i].series, repeticiones |-> list[i].repeticiones] : i \in 1..Len(list)}

(* resetAndClose *)
resetAndClose ==
    /\ generatedWorkout' = Null
    /\ aiError' = Null

(* The close button of the modal *)
CloseModal ==
    /\ aiPc = "idle"
    /\ generatedWorkout # Null \/ aiError # Null
    /\ resetAndClose
    /\ UNCHANGED <<availableExercises, aiPc, aiLocal, aiHistory, workouts, workout_exercises,
                   aiSeedVars, aiOthers>>

(* handleSave: onSave(generatedWorkout) = handleSaveAIGeneratedWorkout, up to the
   first await of handleSubmitWorkoutForm; editing is the page's editingWorkout *)
handleSave(editing) ==
    /\ aiPc = "idle"
    /\ generatedWorkout # Null
    /\ LET formattedExercises == FormattedExercises(generatedWorkout, availableExercises) IN
         IF Len(formattedExercises) = 0
         THEN UNCHANGED <<aiPc, aiLocal>>
         ELSE /\ aiPc' = "saveWorkout"
              /\ aiLocal' = [editing |-> editing, nombre |-> generatedWorkout.nombre,
                             exercises |-> formattedExercises, workout_id |-> 0]
    /\ UNCHANGED <<availableExercises, generatedWorkout, aiError, aiHistory, workouts,
                   workout_exercises, aiSeedVars, aiOthers>>

(* handleSubmitWorkoutForm returns, by its end or by its catch: onSave resolves
   and handleSave closes the modal *)
SaveSettles ==
    /\ aiPc' = "idle"
    /\ aiLocal' = Null
    /\ resetAndClose

(* The update of the edited workout, or the insert of the new one, returns *)
SaveWorkoutReturns(ok) ==
    /\ aiPc = "saveWorkout"
    /\ IF ~ok
       THEN SaveSettles /\ UNCHANGED workouts
       ELSE /\ IF aiLocal.editing # 0
               THEN /\ workouts' = [i \in 1..Len(workouts) |->
                                      IF workouts[i].id = aiLocal.editing
                                      THEN [workouts[i] EXCEPT !.nombre = aiLocal.nombre]
                                      ELSE workouts[i]]
                    /\ aiLocal' = [aiLocal EXCEPT !.workout_id = aiLocal.editing]
                    /\ aiPc' = "deleteOld"
               ELSE /\ workouts' = Append(workouts, WorkoutRow(FreshWorkoutId, aiLocal.nombre))
                    /\ aiLocal' = [aiLocal EXCEPT !.workout_id = FreshWorkoutId]
                    /\ aiPc' = "insertExercises"
            /\ UNCHANGED <<generatedWorkout, aiError>>
    /\ UNCHANGED <<availableExercises, aiHistory, workout_exercises, aiSeedVars, aiOthers>>

(* The delete of the edited workout's old rows returns *)
DeleteOldExercisesReturns(ok) ==
    /\ aiPc = "deleteOld"
    /\ IF ~ok
       THEN SaveSettles /\ UNCHANGED workout_exercises
       ELSE /\ workout_exercises' =
                  {row \in workout_exercises : row.workout_id # aiLocal.workout_id}
            /\ aiPc' = "insertExercises"
            /\ UNCHANGED <<generatedWorkout, aiError, aiLocal>>
    /\ UNCHANGED <<availableExercises, aiHistory, workouts, aiSeedVars, aiOthers>>

(* The insert of the rows returns *)
InsertAIExercisesReturns(ok) ==
    /\ aiPc = "insertExercises"
    /\ LET exercisesToInsert == CreateExercisePayload(aiLocal.exercises, aiLocal.workout_id) IN
         IF ok
         THEN /\ workout_exercises' = workout_exercises \cup exercisesToInsert
              /\ aiHistory' = [aiHistory EXCEPT !.written = @ \cup exercisesToInsert]
         ELSE UNCHANGED <<workout_exercises, aiHistory>>
    /\ SaveSettles
    /\ UNCHANGED <<availableExercises, workouts, aiSeedVars, aiOthers>>

NextAI ==
    \/ \E response \in AIResponses : handleGenerate(response)
    \/ GenerateReturns
    \/ CloseModal
    \/ \E editing \in {0, 1} : handleSave(editing)
    \/ \E ok \in BOOLEAN : SaveWorkoutReturns(ok)
    \/ \E ok \in BOOLEAN : DeleteOldExercisesReturns(ok)
    \/ \E ok \in BOOLEAN : InsertAIExercisesReturns(ok)

SpecAI == InitAI /\ [][NextAI]_vars

(* The names of the library *)
LibraryNames == {availableExercises[i].nombre : i \in 1..Len(availableExercises)}

(* A response with no nombre, no exercises or no exercise of the library *)
InvalidResponse(response) ==
    \/ response.kind = "error"
    \/ response.nombre \in {JsUndefined, JsString("")}
    \/ response.exercises.kind # "array"
    \/ \A i \in 1..Len(response.exercises.value) :
          response.exercises.value[i].exerciseName \notin LibraryNames

(* C15: every exercise of the workout shown for saving has a nombre of the
   library, and every row written by a save refers to a library exercise of a
   nombre the shown workout named; a response with no nombre, no exercises or no
   valid exercise ends in an error with nothing shown, and while nothing is
   shown no save starts. *)
C15_OnlyLibraryExercises ==
    /\ [](generatedWorkout # Null =>
             /\ generatedWorkout.exercises # <<>>
             /\ \A i \in 1..Len(generatedWorkout.exercises) :
                   generatedWorkout.exercises[i].exerciseName \in LibraryNames)
    /\ [](\A row \in aiHistory.written :
             \E i \in 1..Len(availableExercises) :
                availableExercises[i].id = row.exercise_id)
    /\ [][aiPc = "generating" /\ aiPc' = "idle" /\ InvalidResponse(aiLocal.response)
             => generatedWorkout' = Null /\ aiError' # Null]_vars
    /\ [][generatedWorkout = Null => aiPc' \in {"idle", "generating"}]_vars
    /\ [][aiHistory'.written # aiHistory.written
             => /\ aiPc = "insertExercises" /\ generatedWorkout # Null
                /\ \A row \in aiHistory'.written \ aiHistory.written :
                      \E i \in 1..Len(generatedWorkout.exercises),
                         k \in 1..Len(availableExercises) :
                         /\ availableExercises[k].id = row.exercise_id
                         /\ availableExercises[k].nombre
                               = generatedWorkout.exercises[i].exerciseName]_vars

(* A response named an exercise of no library entry next to one of the library;
   the workout was shown without it and its row was written *)
C15_Witness ==
    /\ aiHistory # Null
    /\ aiHistory.dropped = 1
    /\ Cardinality(aiHistory.written) = 1
    /\ aiPc = "idle" /\ generatedWorkout = Null

----------------------------------------------------------------------------
(* WorkoutPage at /workout, without a workoutId: the mount effect, the custom
   workout, and the logger the page renders for it *)

(* 'custom_' + Date.now() *)
CustomId(time) == [prefix |-> "custom_", suffix |-> time]

(* id.startsWith('custom_') *)
StartsWithCustom(id) == id.prefix = "custom_"

(* The page at its first render: the mount effect has set isLoading and awaits
   the select of the library, which is empty or holds the push day exercises *)
InitAdHoc ==
    /\ plan = <<>>
    /\ stored = NoEntry
    /\ now = 1
    /\ LoggerUnused
    /\ isLoading = TRUE
    /\ workoutCompleted = FALSE
    /\ completedWorkoutLog = Null
    /\ pageStartTime = 1
    /\ pc = "idle"
    /\ call = Null
    /\ failedStep = "none"
    /\ workout_logs = <<>>
    /\ exercise_logs = <<>>
    /\ dbLastWeights = EmptyMap
    /\ userLastWeights = EmptyMap
    /\ AuthUnused /\ RestUnused /\ FormUnused /\ AIUnused
    /\ groupName = Null
    /\ canonicalGroup = Null
    /\ canonicalAgain = Null
    /\ exercises \in {<<>>, PushExercises, PullExercises}
    /\ workouts = <<>>
    /\ workout_exercises = {}
    /\ seedPc = "idle"
    /\ seedLocal = Null
    /\ seedResult = Null
    /\ seedCalls = 0
    /\ seedHistory = Null
    /\ pageAllExercises = <<>>
    /\ currentWorkout = Null
    /\ adhocPc = "fetchExercises"
    /\ fetchLocal = Null

adhocOthers == <<fetchLocal, loggerVars, authVars, restVars, seedVars, formVars, aiVars, workoutCompleted,
                 completedWorkoutLog, pageStartTime, pc, call, failedStep, workout_logs,
                 exercise_logs, dbLastWeights, userLastWeights>>

(* fetchAllExercisesForLogger: the select of the library returns *)
fetchAllExercisesForLogger(ok) ==
    /\ adhocPc = "fetchExercises"
    /\ pageAllExercises' = IF ok THEN exercises ELSE <<>>
    /\ adhocPc' = "fetchDetails"
    /\ UNCHANGED <<currentWorkout, isLoading, adhocOthers>>

(* fetchWorkoutDetails(exercisesList) without a workoutId, then the finally of
   the effect: setIsLoading(false) *)
fetchWorkoutDetails ==
    /\ adhocPc = "fetchDetails"
    /\ IF Len(pageAllExercises) > 0
       THEN /\ currentWorkout' = [id |-> CustomId(now), exercises |-> <<>>,
                                  nombre |-> "Entrenamiento Personalizado Ad-Hoc"]
            /\ adhocPc' = "workout"
       ELSE /\ adhocPc' = "routines"
            /\ UNCHANGED currentWorkout
    /\ isLoading' = FALSE
    /\ UNCHANGED <<pageAllExercises, adhocOthers>>

(* The page's render reaches <WorkoutLogger workout={currentWorkout}/>: it is on
   the workout route, not loading, has a workout, and the workout is custom or
   has exercises *)
RendersLogger ==
    /\ adhocPc = "workout" /\ ~isLoading
    /\ currentWorkout # Null
    /\ ~(Len(currentWorkout.exercises) = 0 /\ ~StartsWithCustom(currentWorkout.id))
    /\ ~(workoutCompleted /\ completedWorkoutLog # Null)

NextAdHoc ==
    \/ \E ok \in BOOLEAN : fetchAllExercisesForLogger(ok)
    \/ fetchWorkoutDetails
    \/ RendersLogger /\ plan = currentWorkout.exercises /\ MountLogger
    \/ RendersLogger /\ RunInitEffect
    \/ RendersLogger /\ RunPersistEffect
    \/ RendersLogger /\ UnmountLogger
    \/ ClockTick

SpecAdHoc == InitAdHoc /\ [][NextAdHoc]_vars

(* The effects of a commit run, the backend answers, and the page renders the
   logger once it can *)
SpecAdHocFair ==
    /\ SpecAdHoc
    /\ WF_vars(\E ok \in BOOLEAN : fetchAllExercisesForLogger(ok))
    /\ WF_vars(fetchWorkoutDetails)
    /\ WF_vars(RendersLogger /\ plan = currentWorkout.exercises /\ MountLogger)
    /\ WF_vars(RendersLogger /\ RunInitEffect)
    /\ WF_vars(RendersLogger /\ RunPersistEffect)

(* C16: the page opened without a workoutId with a library that is not empty
   starts a workout whose id begins with 'custom_'; its logger, once rendered,
   eventually leaves the loading state (or is left by the user), after which the
   workout can be finished. *)
C16_AdHocSession ==
    /\ [](adhocPc = "workout" => currentWorkout # Null /\ StartsWithCustom(currentWorkout.id))
    /\ [](adhocPc \in {"workout", "routines"} =>
             (adhocPc = "workout" <=> Len(pageAllExercises) > 0))
    /\ (mounted /\ adhocPc = "workout") ~> (~mounted \/ ~LoggerLoading)

----------------------------------------------------------------------------
(* The logger mounted over an entry that is already in localStorage under its
   key, whatever wrote it (SpecSavedEntry) *)

(* A saved object without loggedWorkoutExercises *)
MissingLogged == [kind |-> "json", currentExerciseIndex |-> 1, startTime |-> 1]

(* The items under the key when the page is opened: the empty string, a text
   that is not JSON, an object without the array, and the untouched session of
   each plan saved at time 1 *)
SavedEntries ==
    {EmptyText, Unparsable, MissingLogged}
    \cup {JSONStringify(StateToSave(Snapshot(FreshLogged(p), 0, 1, TRUE))) : p \in Plans}

InitSavedEntry ==
    /\ plan \in Plans
    /\ stored \in SavedEntries
    /\ mounted = FALSE
    /\ currentExerciseIndex = 0
    /\ loggedWorkoutExercises = <<>>
    /\ startTime = 0
    /\ isInitialized = FALSE
    /\ showDifficultyPrompt = FALSE
    /\ effects = <<>>
    /\ now = 1
    /\ edits = 0
    /\ atUnmount = NoEntry
    /\ PageUnused /\ AuthUnused /\ RestUnused /\ ExtraUnused

NextSavedEntry ==
    \/ MountLogger
    \/ RunInitEffect
    \/ RunPersistEffect
    \/ goToNextExercise
    \/ UnmountLogger
    \/ EditPlan
    \/ ClockTick

SpecSavedEntry == InitSavedEntry /\ [][NextSavedEntry]_vars

(* The entry cannot be restored: JSON.parse throws on it, or the object it holds
   has no loggedWorkoutExercises, or the array has another length than the plan *)
CannotRestore(item, p) ==
    \/ ~Parses(item)
    \/ "loggedWorkoutExercises" \notin DOMAIN item
    \/ Len(item.loggedWorkoutExercises) # Len(p)

(* One logged entry per plan exercise in plan order, each with exactly `series`
   sets of 0 reps and 0 weight and with empty notes *)
FreshFor(logged, p) ==
    /\ Len(logged) = Len(p)
    /\ \A i \in 1..Len(p) :
          /\ logged[i].exercise_id = p[i].exercise_id
          /\ Len(logged[i].sets_performed) = p[i].series
          /\ \A k \in 1..p[i].series :
                logged[i].sets_performed[k] = [reps_achieved |-> 0, weight_used |-> 0]
          /\ logged[i].notes_for_exercise = ""

StartsFresh ==
    /\ FreshFor(loggedWorkoutExercises', plan)
    /\ currentExerciseIndex' = 0
    /\ startTime' = now

(* C18: when the saved entry is a non-empty text that cannot be parsed as JSON,
   or holds no loggedWorkoutExercises, or holds an array of another length than
   workout.exercises, the initialisation removes the entry and starts fresh: one
   logged entry per plan exercise in plan order with exactly `series` sets of 0
   reps and 0 weight and empty notes, currentExerciseIndex 0, startTime = now.
   An entry that is the empty string is left in place, and the logger starts
   fresh all the same. *)
C18_FreshOnBadEntry ==
    /\ [][ (InitialisationStep /\ HasSavedState(stored) /\ CannotRestore(stored, plan))
           => (stored' = NoEntry /\ StartsFresh) ]_vars
    /\ [][ (InitialisationStep /\ stored = EmptyText)
           => (stored' = EmptyText /\ StartsFresh) ]_vars

(* The initialisation has removed an entry (no other step of this specification
   removes one) and the session is the fresh one of a plan with two exercises,
   started after the clock moved. *)
C18_Witness ==
    /\ mounted /\ isInitialized
    /\ stored = NoEntry
    /\ Len(plan) = 2
    /\ FreshFor(loggedWorkoutExercises, plan)
    /\ currentExerciseIndex = 0
    /\ startTime = now /\ now > 1

(* C18 as stated: every saved entry that cannot be parsed, the empty string
   included, is removed by the initialisation. *)
C18_AsStated ==
    [][ (InitialisationStep /\ stored # NoEntry /\ CannotRestore(stored, plan))
        => (stored' = NoEntry /\ StartsFresh) ]_vars

----------------------------------------------------------------------------
(* Claims on the logger's navigation (SpecLogger) *)

(* 0 <= currentExerciseIndex <= workout.exercises.length - 1 *)
IndexInRange == currentExerciseIndex \in 0..(Len(plan) - 1)

LastIndex == Len(plan) - 1

(* C19: in every state the logger reaches by goToNextExercise and
   goToPreviousExercise the index is between 0 and the last index of the plan;
   Previous at index 0 changes nothing, Next below the last index adds exactly 1,
   Next at the last index leaves the index and shows the difficulty prompt; the
   prompt appears by no other step, and onWorkoutComplete is called only from
   the prompt, with the index on the last exercise. *)
C19_IndexInRange ==
    /\ [][ (goToNextExercise \/ goToPreviousExercise)
           => (IndexInRange /\ IndexInRange') ]_vars
    /\ []((mounted /\ Len(plan) > 0) => IndexInRange)
    /\ [][ (goToPreviousExercise /\ currentExerciseIndex = 0)
           => UNCHANGED <<currentExerciseIndex, loggedWorkoutExercises,
                          showDifficultyPrompt, stored, effects>> ]_vars
    /\ [][ (goToNextExercise /\ currentExerciseIndex < LastIndex)
           => (currentExerciseIndex' = currentExerciseIndex + 1
               /\ ~showDifficultyPrompt') ]_vars
    /\ [][ (goToNextExercise /\ currentExerciseIndex = LastIndex)
           => (currentExerciseIndex' = currentExerciseIndex
               /\ showDifficultyPrompt') ]_vars
    /\ [][ (~showDifficultyPrompt /\ showDifficultyPrompt')
           => (goToNextExercise /\ currentExerciseIndex = LastIndex) ]_vars
    /\ [][ (\E saved \in BOOLEAN : handleFinishWorkout(saved))
           => (showDifficultyPrompt /\ currentExerciseIndex = LastIndex) ]_vars

(* Next was pressed on the first and then on the last exercise of a plan with
   two exercises: the prompt is on screen and the index is still the last one. *)
C19_Witness ==
    /\ mounted /\ isInitialized
    /\ Len(plan) = 2
    /\ currentExerciseIndex = 1
    /\ showDifficultyPrompt
    /\ edits = 2

----------------------------------------------------------------------------
(* WorkoutPage at /workout/:workoutId: fetchWorkoutDetails for a stored workout
   (SpecStored) *)

(* useParams().workoutId on the route the provider's variables name *)
workoutId == "w1"

OtherUserId == "u2"

StoredWorkout(owner) == [id |-> workoutId, user_id |-> owner, nombre |-> "Torso"]

WorkoutExerciseRow(e, orden, series) ==
    [workout_id |-> workoutId, exercise_id |-> e, orden |-> orden, series |-> series]

(* The id of a stored workout, in the shape of the custom ids *)
StoredId(id) == [prefix |-> "", suffix |-> id]

(* The page at its first render with a workoutId: the workout is missing, or the
   user's, or another user's; it has no rows or two rows that are not stored in
   their order *)
InitStored ==
    /\ plan = <<>>
    /\ stored = NoEntry
    /\ now = 1
    /\ LoggerUnused
    /\ isLoading = TRUE
    /\ workoutCompleted = FALSE
    /\ completedWorkoutLog = Null
    /\ pageStartTime = 1
    /\ pc = "idle"
    /\ call = Null
    /\ failedStep = "none"
    /\ workout_logs = <<>>
    /\ exercise_logs = <<>>
    /\ dbLastWeights = EmptyMap
    /\ userLastWeights = EmptyMap
    /\ AuthUnused /\ RestUnused /\ FormUnused /\ AIUnused
    /\ groupName = Null
    /\ canonicalGroup = Null
    /\ canonicalAgain = Null
    /\ exercises \in {<<>>, PushExercises}
    /\ workouts \in {<<>>, <<StoredWorkout(UserId)>>, <<StoredWorkout(OtherUserId)>>}
    /\ workout_exercises \in
          {{}, {WorkoutExerciseRow("e1", 2, 1), WorkoutExerciseRow("e2", 1, 1)}}
    /\ seedPc = "idle"
    /\ seedLocal = Null
    /\ seedResult = Null
    /\ seedCalls = 0
    /\ seedHistory = Null
    /\ pageAllExercises = <<>>
    /\ currentWorkout = Null
    /\ adhocPc = "fetchExercises"
    /\ fetchLocal = Null

storedOthers == <<authVars, restVars, seedVars, formVars, aiVars, workoutCompleted,
                  completedWorkoutLog, pageStartTime, pc, call, failedStep, workout_logs,
                  exercise_logs, dbLastWeights, userLastWeights, pageAllExercises>>

(* from('workouts').select('*').eq('id', workoutId).single(): the row, or an
   error (single() gives one when no row or several match) *)
SelectSingle(table, id) ==
    LET found == {i \in 1..Len(table) : table[i].id = id} IN
    IF Cardinality(found) = 1
    THEN [data |-> table[CHOOSE i \in found : TRUE], error |-> FALSE]
    ELSE [data |-> Null, error |-> TRUE]

(* A check that takes any workout that was found for the user's. *)
IsOwnWorkout_AnyFound(workoutData, u) == workoutData # Null

(* workoutData?.user_id === user.id *)
IsOwnWorkout(workoutData, u) ==
    /\ workoutData # Null
    /\ u # Null
    /\ workoutData.user_id = u.id

(* catch (error) and the else of the ownership test: navigate('/routines'), then
   the finally of the mount effect *)
NavigateToRoutines(workoutData, error) ==
    /\ adhocPc' = "routines"
    /\ fetchLocal' = [workoutData |-> workoutData, error |-> error]
    /\ isLoading' = FALSE
    /\ UNCHANGED currentWorkout

(* The select of the workout returns, or fails in the backend *)
SelectWorkoutReturns(ok) ==
    /\ adhocPc = "fetchDetails"
    /\ LET result == IF ok THEN SelectSingle(workouts, workoutId)
                     ELSE [data |-> Null, error |-> TRUE]
       IN IF result.error
          THEN NavigateToRoutines(Null, TRUE)
          ELSE IF IsOwnWorkout(result.data, user)
               THEN /\ adhocPc' = "fetchWorkoutExercises"
                    /\ fetchLocal' = [workoutData |-> result.data, error |-> FALSE]
                    /\ UNCHANGED <<currentWorkout, isLoading>>
               ELSE NavigateToRoutines(result.data, FALSE)
    /\ UNCHANGED <<loggerVars, storedOthers>>

(* .eq('workout_id', workoutId).order('orden', {ascending: true}) *)
OrderedByOrden(rows) ==
    {s \in [1..Cardinality(rows) -> rows] :
        /\ {s[i] : i \in 1..Cardinality(rows)} = rows
        /\ \A i, j \in 1..Cardinality(rows) : i < j => s[i].orden <= s[j].orden}

(* exercisesWithDetails, as the logger reads it *)
ExercisesWithDetails(workoutExercisesData) ==
    [i \in 1..Len(workoutExercisesData) |->
        PlanEntry(workoutExercisesData[i].exercise_id, workoutExercisesData[i].series)]

(* The select of the workout's rows returns: setCurrentWorkout, or the catch;
   then the finally of the mount effect *)
SelectWorkoutExercisesReturns(ok) ==
    /\ adhocPc = "fetchWorkoutExercises"
    /\ IF ok
       THEN \E workoutExercisesData \in
                 OrderedByOrden({r \in workout_exercises : r.workout_id = workoutId}) :
               /\ currentWorkout' = [id |-> StoredId(fetchLocal.workoutData.id),
                                     nombre |-> fetchLocal.workoutData.nombre,
                                     user_id |-> fetchLocal.workoutData.user_id,
                                     exercises |-> ExercisesWithDetails(workoutExercisesData)]
               /\ plan' = ExercisesWithDetails(workoutExercisesData)
               /\ adhocPc' = "workout"
               /\ isLoading' = FALSE
               /\ UNCHANGED fetchLocal
       ELSE /\ NavigateToRoutines(fetchLocal.workoutData, TRUE)
            /\ UNCHANGED plan
    /\ UNCHANGED <<stored, mounted, currentExerciseIndex, loggedWorkoutExercises, startTime,
                   isInitialized, showDifficultyPrompt, effects, now, edits, atUnmount,
                   storedOthers>>

NextStored ==
    \/ \E ok \in BOOLEAN : fetchAllExercisesForLogger(ok)
    \/ \E ok \in BOOLEAN : SelectWorkoutReturns(ok)
    \/ \E ok \in BOOLEAN : SelectWorkoutExercisesReturns(ok)
    \/ RendersLogger /\ plan = currentWorkout.exercises /\ MountLogger
    \/ RendersLogger /\ RunInitEffect
    \/ RendersLogger /\ RunPersistEffect
    \/ RendersLogger /\ goToNextExercise
    \/ RendersLogger /\ UnmountLogger
    \/ ClockTick

SpecStored == InitStored /\ [][NextStored]_vars

(* The workout the select would find belongs to the signed-in user *)
OwnWorkoutStored ==
    \E i \in 1..Len(workouts) :
        workouts[i].id = workoutId /\ workouts[i].user_id = user.id

(* The mount effect has finished *)
FetchSettled == adhocPc \in {"workout", "routines"}

(* C21: the page sets currentWorkout, and so renders a logger, only for a stored
   workout whose user_id is the signed-in user's id; when the workout is another
   user's or missing, or a select fails, currentWorkout stays null and the page
   navigates to /routines. *)
C21_OnlyOwnWorkout ==
    /\ [](currentWorkout # Null =>
             /\ OwnWorkoutStored
             /\ currentWorkout.user_id = user.id
             /\ currentWorkout.id = StoredId(workoutId))
    /\ [](mounted => currentWorkout # Null)
    /\ []((FetchSettled /\ (~OwnWorkoutStored \/ fetchLocal.error))
             => (currentWorkout = Null /\ adhocPc = "routines" /\ ~mounted))
    /\ []((FetchSettled /\ OwnWorkoutStored /\ ~fetchLocal.error)
             => (currentWorkout # Null /\ adhocPc = "workout"))

(* Another user's workout was found by the select, and the page has left for
   /routines without a workout. *)
C21_Witness ==
    /\ adhocPc = "routines"
    /\ fetchLocal # Null /\ ~fetchLocal.error
    /\ fetchLocal.workoutData # Null
    /\ fetchLocal.workoutData.user_id = OtherUserId
    /\ currentWorkout = Null
    /\ ~isLoading

----------------------------------------------------------------------------
(* The auth provider's loading flag (SpecAuthFair) *)

(* getSession and the profile select of initializeSession return *)
SpecAuthFair ==
    /\ SpecAuth
    /\ WF_vars(\E ok \in BOOLEAN : GetSessionReturns(ok))
    /\ WF_vars(\E ok \in BOOLEAN : InitProfileReturns(ok))

(* C22: after the mount, whether getSession succeeds, returns no session or
   fails, and whether the profile load succeeds or fails, loading eventually
   becomes false, and once false it never becomes true again; the step in which
   getSession fails leaves session and user null. *)
C22_LoadingStops ==
    /\ <>[](~loading)
    /\ [][ ~loading => ~loading' ]_vars
    /\ [](initPc = "done" => ~loading)
    /\ [][ GetSessionReturns(FALSE) => (session' = Null /\ user' = Null) ]_vars

(* getSession has failed although the client holds a session: the provider has
   stopped loading with no session and no user, before any auth event. *)
C22_Witness ==
    /\ initPc = "done" /\ ~loading
    /\ events = 0 /\ loads = 0
    /\ authSession # Null
    /\ session = Null /\ user = Null

----------------------------------------------------------------------------
(* The provider under the initial session load, the auth state changes and
   their profile loads alone (SpecAuthEvents) *)

NextAuthEvents ==
    \/ \E ok \in BOOLEAN : GetSessionReturns(ok)
    \/ \E ok \in BOOLEAN : InitProfileReturns(ok)
    \/ \E ok \in BOOLEAN : CallbackProfileReturns(ok)
    \/ \E s \in {Null} \cup {SessionOf(u) : u \in UserIds} : AuthStateChange(s)

SpecAuthEvents == InitAuth /\ [][NextAuthEvents]_vars

(* The last auth state change carried no session, and its callback has run
   (here the client's session changes by auth state changes only) *)
SignedOutHandled == events > 0 /\ authSession = Null

(* No profile load is pending: neither the one of initializeSession nor one of a
   callback *)
NoPendingLoad == initPc = "done" /\ loads = 0

(* C23: once a state change with no session has been handled and every pending
   profile load has finished, user is null and session is null. *)
C23_SignedOutLeavesNoUser ==
    [](SignedOutHandled /\ NoPendingLoad => user = Null /\ session = Null)

----------------------------------------------------------------------------
(* One record per completed session (SpecPage) *)

(* The workout_logs rows of the logger session of one page: the page keeps its
   startTime, writes it to start_time, and shows no logger after a finish that
   succeeded, so the rows of one start_time are rows of one session. *)
LogsOfSession(time) == {i \in 1..Len(workout_logs) : workout_logs[i].start_time = time}

(* C24: over any sequence of finish attempts of one logger session, failed and
   repeated ones included, at most one workout_logs row exists for the session,
   and at most one of its rows has exercise_logs rows. *)
C24_RecordedOnce ==
    \A time \in 1..MaxLogs :
        /\ Cardinality(LogsOfSession(time)) <= 1
        /\ Cardinality({i \in LogsOfSession(time) :
                           RowsOfLog(exercise_logs, workout_logs[i].id) # {}}) <= 1

====
